---- MODULE Spec2Model ----
(***************************************************************************)
(* State-machine model of the ide4ai workspace: the PyWorkspace            *)
(* orchestrator (open / create / edit / close, analyzer notifications),    *)
(* the ClaudeEditorTool undo history and the PyIDESingleton registry.      *)
(*                                                                         *)
(* Text is a sequence of one-character strings; NL is the line separator.  *)
(* Positions are 1-based (line, character) records.                        *)
(***************************************************************************)
EXTENDS Integers, Sequences, FiniteSets, TLC

\* ------------------------------------------------------------------------
\* Bounds of the exploration
\* ------------------------------------------------------------------------
MaxLen == 2
MaxVersion == 4
MaxBatch == 2
MaxMsgId == 3
MaxTracked == 11
MaxTrackedOther == 3
MaxThreads == 2
MaxCalls == 2

\* ------------------------------------------------------------------------
\* Program constants
\* ------------------------------------------------------------------------
max_active_models == 3
UndoMaxLen == 10

NL == "\n"
None == "None"
NoVersion == -1
NoId == 0

\* ------------------------------------------------------------------------
\* Text buffer primitives (TextModel)
\* ------------------------------------------------------------------------
Pos(l, c) == [line |-> l, character |-> c]
Rng(s, e) == [start_position |-> s, end_position |-> e]

NLBefore(t, off) == Cardinality({i \in 1..off : t[i] = NL})

get_line_count(t) == 1 + NLBefore(t, Len(t))

\* number of characters that precede line l
LineStart(t, l) ==
  IF l = 1 THEN 0
  ELSE CHOOSE i \in 1..Len(t) : t[i] = NL /\ NLBefore(t, i) = l - 1

get_line_length(t, l) ==
  (IF l = get_line_count(t) THEN Len(t) ELSE LineStart(t, l + 1) - 1) - LineStart(t, l)

Clamp(v, lo, hi) == IF v < lo THEN lo ELSE IF v > hi THEN hi ELSE v

validate_position(t, p) ==
  LET l == Clamp(p.line, 1, get_line_count(t))
  IN  Pos(l, Clamp(p.character, 1, get_line_length(t, l) + 1))

get_offset_at(t, p) == LineStart(t, p.line) + p.character - 1

get_position_at(t, off) ==
  LET l == 1 + NLBefore(t, off)
  IN  Pos(l, off - LineStart(t, l) + 1)

\* ------------------------------------------------------------------------
\* TextModel.apply_edits: every range is validated against the buffer as it
\* is before the batch; the ranges of a batch address that one snapshot, and
\* the inverse edits address the buffer as it is after the batch.
\* ------------------------------------------------------------------------
ValidRange(t, r) ==
  /\ validate_position(t, r.start_position) = r.start_position
  /\ validate_position(t, r.end_position) = r.end_position
  /\ get_offset_at(t, r.start_position) <= get_offset_at(t, r.end_position)

EditOffsets(t, edits) ==
  [i \in 1..Len(edits) |->
     [s |-> get_offset_at(t, edits[i].range.start_position),
      e |-> get_offset_at(t, edits[i].range.end_position),
      text |-> edits[i].text]]

NoOverlap(ops) ==
  \A i, j \in 1..Len(ops) : i < j => (ops[i].e <= ops[j].s \/ ops[j].e <= ops[i].s)

\* position order of the edits of a batch; the caller's order breaks ties
EditBefore(ops, i, j) ==
  \/ ops[i].s < ops[j].s
  \/ ops[i].s = ops[j].s /\ ops[i].e < ops[j].e
  \/ ops[i].s = ops[j].s /\ ops[i].e = ops[j].e /\ i < j

SortedOps(ops) ==
  [k \in 1..Len(ops) |->
     ops[CHOOSE i \in 1..Len(ops) :
           Cardinality({j \in 1..Len(ops) : EditBefore(ops, j, i)}) = k - 1]]

RECURSIVE Splice(_, _, _, _)
Splice(t, ops, k, from) ==
  IF k > Len(ops) THEN SubSeq(t, from + 1, Len(t))
  ELSE SubSeq(t, from + 1, ops[k].s) \o ops[k].text \o Splice(t, ops, k + 1, ops[k].e)

RECURSIVE Shift(_, _)
Shift(ops, k) ==
  IF k = 0 THEN 0 ELSE Shift(ops, k - 1) + Len(ops[k].text) - (ops[k].e - ops[k].s)

InverseEdits(t, new, ops) ==
  [k \in 1..Len(ops) |->
     [range |-> Rng(get_position_at(new, ops[k].s + Shift(ops, k - 1)),
                    get_position_at(new, ops[k].s + Shift(ops, k - 1) + Len(ops[k].text))),
      new_text |-> SubSeq(t, ops[k].s + 1, ops[k].e)]]

apply_edits(t, edits, compute_undo_edits) ==
  IF \E i \in 1..Len(edits) : ~ValidRange(t, edits[i].range)
  THEN [ok |-> FALSE, text |-> t, undo |-> <<>>]
  ELSE LET raw == EditOffsets(t, edits) IN
       IF ~NoOverlap(raw)
       THEN [ok |-> FALSE, text |-> t, undo |-> <<>>]
       ELSE LET ops == SortedOps(raw)
                new == Splice(t, ops, 1, 0)
            IN  [ok |-> TRUE, text |-> new,
                 undo |-> IF compute_undo_edits THEN InverseEdits(t, new, ops) ELSE <<>>]

\* TextEdit.to_single_edit_operation
to_single_edit_operation(te) == [range |-> te.range, text |-> te.new_text]

\* TextModel: one open document. A TextModel is built from the file on disk
\* with version 0; every successful edit batch adds 1 to the version.
TextModel(id, uri, text) == [m_id |-> id, uri |-> uri, content |-> text, version |-> 0, cursors |-> {}]

model_apply_edits(m, edits, compute_undo_edits) ==
  LET r == apply_edits(m.content, edits, compute_undo_edits)
  IN  [ok |-> r.ok,
       model |-> IF r.ok THEN [m EXCEPT !.content = r.text, !.version = m.version + 1] ELSE m,
       undo |-> r.undo]

\* ------------------------------------------------------------------------
\* Inputs
\* ------------------------------------------------------------------------
URIs == {"a.py", "b.py", "c.txt", "d.py"}
PyUris == {"a.py", "b.py", "d.py"}
File(text) == [exists |-> TRUE, text |-> text]
NoFile == [exists |-> FALSE, text |-> <<>>]
InitDisk == [u \in URIs |->
               CASE u = "a.py" -> File(<<"a">>)
                 [] u = "b.py" -> File(<<"b">>)
                 [] u = "c.txt" -> File(<<>>)
                 [] OTHER -> NoFile]

\* default_python_header_generator, shortened to one line
Header == <<"h", NL>>
\* init_content; the empty text stands for None, which the code treats alike
InitContents == {<<>>, <<"a">>}

Edit(sl, sc, el, ec, txt) == [range |-> Rng(Pos(sl, sc), Pos(el, ec)), text |-> txt]
InsertA == Edit(1, 1, 1, 1, <<"a">>)        \* insert at the start
DeleteFirst == Edit(1, 1, 1, 2, <<>>)       \* delete the first character
JoinLines == Edit(1, 2, 2, 1, <<>>)         \* delete the line break after a one-character line
SplitLine == Edit(1, 2, 1, 2, <<NL>>)       \* break line 1 after its first character
Reversed == Edit(1, 2, 1, 1, <<"a">>)       \* start after end
BeyondLine == Edit(1, 1, 1, 5, <<>>)        \* column beyond the line
ZeroBased == Edit(0, 1, 1, 1, <<"a">>)      \* 0-based position

EditPool == {InsertA, DeleteFirst, JoinLines, SplitLine, Reversed, BeyondLine, ZeroBased}
SmallPool == {InsertA, Reversed}

EditUris == {"a.py"}
CreateUris == {"d.py"}

RECURSIVE SeqsUpTo(_, _)
SeqsUpTo(S, n) ==
  IF n = 0 THEN {<<>>}
  ELSE LET shorter == SeqsUpTo(S, n - 1)
       IN  shorter \cup {Append(q, x) : q \in {r \in shorter : Len(r) = n - 1}, x \in S}

PairPool == {InsertA, JoinLines, BeyondLine}
EditBatches == {<<e>> : e \in EditPool} \cup (SeqsUpTo(PairPool, MaxBatch) \ {<<>>})
SmallBatches == SeqsUpTo(SmallPool, MaxBatch) \ {<<>>}

\* ------------------------------------------------------------------------
\* State
\* ------------------------------------------------------------------------
VARIABLES
  pc,             \* workspace life cycle: "new", "live", "failed", "closed"
  handshake,      \* what _initial_lsp received and sent
  lsp_msg_id,     \* last message id handed out by get_lsp_msg_id
  models,         \* BaseWorkspace.models: sequence of TextModel
  active_models,  \* BaseWorkspace.active_models: sequence of m_id, most recent last
  disk,           \* the files of the project
  lsp,            \* the analyzer's documents, replayed from the notifications sent
  sent,           \* the messages sent to the analyzer by the last operation
  last,           \* the last operation and its outcome
  undo_stack,     \* ClaudeEditorTool._undo_stack
  journal,        \* per document: every entry pushed, and the contents the tracked edits replaced
  instances,      \* IDESingleton._instances
  lock,           \* IDESingleton._lock: the thread that holds it, or None
  threads,        \* the callers of PyIDESingleton
  built,          \* the PythonIDE constructions that completed
  ide_closed,     \* the constructed IDEs on which IDE.close has run
  res,            \* the last call as its caller saw it: its arguments and what it returned
  terminals,      \* IDE.terminals: per terminal, the commands it was given
  active_terminal_index  \* IDE.active_terminal_index (0-based), or NoIndex

wsVars == <<pc, handshake, lsp_msg_id, models, active_models, disk, lsp, sent, last>>
toolVars == <<undo_stack, journal, res>>
regVars == <<instances, lock, threads, built, ide_closed>>
ideVars == <<terminals, active_terminal_index>>
vars == <<pc, handshake, lsp_msg_id, models, active_models, disk, lsp, sent, last,
          undo_stack, journal, instances, lock, threads, built, ide_closed, res,
          terminals, active_terminal_index>>

\* active_terminal_index = None
NoIndex == -1

\* a message to the analyzer: text is the text of a didOpen, changes the
\* contentChanges of a didChange
Msg(method, uri, version, id) ==
  [method |-> method, uri |-> uri, version |-> version, id |-> id, text |-> <<>>, changes |-> <<>>]
DidOpen(uri, version, text) ==
  [Msg("textDocument/didOpen", uri, version, NoId) EXCEPT !.text = text]
DidChange(uri, version, changes) ==
  [Msg("textDocument/didChange", uri, version, NoId) EXCEPT !.changes = changes]
NoSnap == [set |-> FALSE, content |-> <<>>, version |-> 0]
Snap(content, version) == [set |-> TRUE, content |-> content, version |-> version]
Outcome(op, uri, ok) ==
  [op |-> op, uri |-> uri, ok |-> ok, n |-> 0, invalid |-> FALSE, undo |-> <<>>, pre |-> NoSnap, rt |-> NoSnap]
NoRes == [op |-> "none"]

\* ------------------------------------------------------------------------
\* The analyzer's side: a document lives from didOpen to didClose, and the
\* content changes of a didChange are applied one after the other.
\* ------------------------------------------------------------------------
NoDoc == [open |-> FALSE, text |-> <<>>, version |-> 0]

\* Range.to_lsp_range: the wire protocol counts lines and characters from 0
to_lsp_range(r) ==
  [start |-> [line |-> r.start_position.line - 1, character |-> r.start_position.character - 1],
   end |-> [line |-> r.end_position.line - 1, character |-> r.end_position.character - 1]]

\* contentChanges listed from the last edit to the first
content_changes_reversed(edits) ==
  [i \in 1..Len(edits) |-> [range |-> to_lsp_range(edits[Len(edits) + 1 - i].range),
                            text |-> edits[Len(edits) + 1 - i].text]]

\* apply_edit: the contentChanges of the didChange
content_changes(edits) ==
  [i \in 1..Len(edits) |-> [range |-> to_lsp_range(edits[i].range), text |-> edits[i].text]]

LspOffset(t, p) == get_offset_at(t, validate_position(t, Pos(p.line + 1, p.character + 1)))

LspChange(t, ch) ==
  LET s == LspOffset(t, ch.range.start)
      e == LspOffset(t, ch.range.end)
      e2 == IF e < s THEN s ELSE e
  IN  SubSeq(t, 1, s) \o ch.text \o SubSeq(t, e2 + 1, Len(t))

RECURSIVE LspReplay(_, _, _)
LspReplay(t, changes, k) ==
  IF k > Len(changes) THEN t ELSE LspReplay(LspChange(t, changes[k]), changes, k + 1)

LspDidOpen(view, uri, version, text) ==
  [view EXCEPT ![uri] = [open |-> TRUE, text |-> text, version |-> version]]

LspDidChange(view, uri, version, changes) ==
  IF view[uri].open
  THEN [view EXCEPT ![uri] = [open |-> TRUE, text |-> LspReplay(view[uri].text, changes, 1),
                              version |-> version]]
  ELSE view

LspDidClose(view, uri) == [view EXCEPT ![uri] = NoDoc]

\* ------------------------------------------------------------------------
\* BaseWorkspace
\* ------------------------------------------------------------------------
RECURSIVE Without(_, _)
Without(q, x) ==
  IF q = <<>> THEN <<>>
  ELSE IF Head(q) = x THEN Without(Tail(q), x) ELSE <<Head(q)>> \o Without(Tail(q), x)

RECURSIVE WithoutModel(_, _)
WithoutModel(ms, id) ==
  IF ms = <<>> THEN <<>>
  ELSE IF Head(ms).m_id = id THEN WithoutModel(Tail(ms), id)
       ELSE <<Head(ms)>> \o WithoutModel(Tail(ms), id)

ModelIds(ms) == {ms[i].m_id : i \in 1..Len(ms)}
ModelById(ms, id) == ms[CHOOSE i \in 1..Len(ms) : ms[i].m_id = id]
\* m_id: a fresh identity for every TextModel
NewId(ms, uri) == <<uri, CHOOSE k \in 1..(Len(ms) + 1) : <<uri, k>> \notin ModelIds(ms)>>
AllIds == {<<u, k>> : u \in URIs, k \in 1..(max_active_models + 1)}
NoModel == <<None, 0>>

\* get_model: the first model of the list with that uri, or None
HasModel(ms, uri) == \E i \in 1..Len(ms) : ms[i].uri = uri
get_model(ms, uri) ==
  IF HasModel(ms, uri)
  THEN ms[CHOOSE i \in 1..Len(ms) : ms[i].uri = uri /\ \A j \in 1..(i - 1) : ms[j].uri # uri]
  ELSE None

\* active_model: the model becomes the last element of active_models; beyond
\* max_active_models the first element is closed and the analyzer is told
active_model(ms, act, id) ==
  LET promoted == Append(Without(act, id), id) IN
  IF Len(promoted) > max_active_models
  THEN [models |-> WithoutModel(ms, Head(promoted)),
        active |-> Tail(promoted),
        msgs |-> <<Msg("textDocument/didClose", ModelById(ms, Head(promoted)).uri, NoVersion, NoId)>>,
        closed |-> {ModelById(ms, Head(promoted)).uri}]
  ELSE [models |-> ms, active |-> promoted, msgs |-> <<>>, closed |-> {}]

RECURSIVE CloseAll(_, _)
CloseAll(view, uris) ==
  IF uris = {} THEN view
  ELSE LET u == CHOOSE x \in uris : TRUE IN CloseAll(LspDidClose(view, u), uris \ {u})

\* ------------------------------------------------------------------------
\* PyWorkspace operations, as functions of the workspace state
\* ------------------------------------------------------------------------
Responses == {"ok", "error", "unparsable", "none"}

\* _initial_lsp that notifies the analyzer before it looks at the response
initial_lsp_eager(resp, id) ==
  LET request == Msg("initialize", None, NoVersion, id)
      notification == Msg("initialized", None, NoVersion, NoId)
  IN
  IF resp = "none" THEN [raised |-> FALSE, msgs |-> <<request>>]
  ELSE [raised |-> resp \in {"unparsable", "error"}, msgs |-> <<request, notification>>]

\* _initial_lsp that passes the message id to the notification as well
initial_lsp_id_on_both(resp, id) ==
  LET request == Msg("initialize", None, NoVersion, id) IN
  IF resp = "ok"
  THEN [raised |-> FALSE, msgs |-> <<request, Msg("initialized", None, NoVersion, id)>>]
  ELSE [raised |-> resp # "none", msgs |-> <<request>>]

\* _initial_lsp: resp is what send_lsp_msg("initialize") returned
initial_lsp(resp, id) ==
  LET request == Msg("initialize", None, NoVersion, id) IN
  IF resp = "none" THEN [raised |-> FALSE, msgs |-> <<request>>]
  ELSE IF resp = "unparsable" THEN [raised |-> TRUE, msgs |-> <<request>>]
  ELSE IF resp = "error" THEN [raised |-> TRUE, msgs |-> <<request>>]
  ELSE [raised |-> FALSE, msgs |-> <<request, Msg("initialized", None, NoVersion, NoId)>>]

WsFail(ms, act, view, dsk) ==
  [ok |-> FALSE, models |-> ms, active |-> act, lsp |-> view, disk |-> dsk,
   msgs |-> <<>>, mid |-> NoModel, undo |-> <<>>, pre |-> NoSnap]

\* open_file that appends to active_models itself instead of calling active_model
open_file_append(ms, act, view, dsk, uri) ==
  IF HasModel(ms, uri)
  THEN LET tm == get_model(ms, uri)
           r == active_model(ms, act, tm.m_id)
       IN  [ok |-> TRUE, models |-> r.models, active |-> r.active,
            lsp |-> CloseAll(view, r.closed), disk |-> dsk, msgs |-> r.msgs,
            mid |-> tm.m_id, undo |-> <<>>, pre |-> NoSnap]
  ELSE IF ~dsk[uri].exists THEN WsFail(ms, act, view, dsk)
  ELSE LET tm == TextModel(NewId(ms, uri), uri, dsk[uri].text)
       IN  [ok |-> TRUE, models |-> Append(ms, tm), active |-> Append(act, tm.m_id),
            lsp |-> LspDidOpen(view, uri, tm.version, tm.content),
            disk |-> dsk,
            msgs |-> <<DidOpen(uri, tm.version, tm.content)>>,
            mid |-> tm.m_id, undo |-> <<>>, pre |-> NoSnap]

\* open_file that puts the new document first in active_models
open_file_least_recent(ms, act, view, dsk, uri) ==
  IF HasModel(ms, uri) \/ ~dsk[uri].exists THEN open_file_append(ms, act, view, dsk, uri)
  ELSE LET tm == TextModel(NewId(ms, uri), uri, dsk[uri].text)
       IN  [ok |-> TRUE, models |-> Append(ms, tm), active |-> <<tm.m_id>> \o act,
            lsp |-> LspDidOpen(view, uri, tm.version, tm.content),
            disk |-> dsk,
            msgs |-> <<DidOpen(uri, tm.version, tm.content)>>,
            mid |-> tm.m_id, undo |-> <<>>, pre |-> NoSnap]

open_file(ms, act, view, dsk, uri) ==
  IF HasModel(ms, uri)
  THEN LET tm == get_model(ms, uri)
           r == active_model(ms, act, tm.m_id)
       IN  [ok |-> TRUE, models |-> r.models, active |-> r.active,
            lsp |-> CloseAll(view, r.closed), disk |-> dsk, msgs |-> r.msgs,
            mid |-> tm.m_id, undo |-> <<>>, pre |-> NoSnap]
  ELSE IF ~dsk[uri].exists THEN WsFail(ms, act, view, dsk)
  ELSE LET tm == TextModel(NewId(ms, uri), uri, dsk[uri].text)
           r == active_model(Append(ms, tm), act, tm.m_id)
       IN  [ok |-> TRUE, models |-> r.models, active |-> r.active,
            lsp |-> LspDidOpen(CloseAll(view, r.closed), uri, tm.version, tm.content),
            disk |-> dsk,
            msgs |-> r.msgs \o <<DidOpen(uri, tm.version, tm.content)>>,
            mid |-> tm.m_id, undo |-> <<>>, pre |-> NoSnap]

\* SingleEditOperation.model_validate: positions are 1-based
ValidatesAsEdit(e) ==
  /\ e.range.start_position.line >= 1 /\ e.range.start_position.character >= 1
  /\ e.range.end_position.line >= 1 /\ e.range.end_position.character >= 1

ReplaceModel(ms, m) == [i \in 1..Len(ms) |-> IF ms[i].m_id = m.m_id THEN m ELSE ms[i]]

\* apply_edit that hands the batch to the model a second time
apply_edit_twice(ms, act, view, dsk, uri, edits, compute_undo_edits) ==
  LET o == IF HasModel(ms, uri)
           THEN [ok |-> TRUE, models |-> ms, active |-> act, lsp |-> view, disk |-> dsk,
                 msgs |-> <<>>, mid |-> get_model(ms, uri).m_id, undo |-> <<>>, pre |-> NoSnap]
           ELSE open_file(ms, act, view, dsk, uri)
  IN
  IF ~o.ok THEN o
  ELSE IF \E i \in 1..Len(edits) : ~ValidatesAsEdit(edits[i])
  THEN [o EXCEPT !.ok = FALSE]
  ELSE LET tm == ModelById(o.models, o.mid)
           r1 == model_apply_edits(tm, edits, compute_undo_edits)
           r2 == model_apply_edits(r1.model, edits, compute_undo_edits)
           r == IF r1.ok /\ r2.ok THEN r2 ELSE r1
       IN  IF ~r.ok THEN [o EXCEPT !.ok = FALSE]
           ELSE [ok |-> TRUE,
                 models |-> ReplaceModel(o.models, r.model),
                 active |-> o.active,
                 lsp |-> LspDidChange(o.lsp, uri, r.model.version, content_changes(edits)),
                 disk |-> dsk,
                 msgs |-> o.msgs \o <<DidChange(uri, r.model.version, content_changes(edits))>>,
                 mid |-> tm.m_id,
                 undo |-> r.undo,
                 pre |-> Snap(tm.content, tm.version)]

\* apply_edit that hands the edits to the model one at a time and stops at
\* the first one the model rejects
RECURSIVE OneByOne(_, _, _)
OneByOne(m, edits, k) ==
  IF k > Len(edits) THEN [ok |-> TRUE, model |-> m]
  ELSE LET r == model_apply_edits(m, <<edits[k]>>, FALSE)
       IN  IF ~ValidatesAsEdit(edits[k]) \/ ~r.ok THEN [ok |-> FALSE, model |-> m]
           ELSE OneByOne(r.model, edits, k + 1)

apply_edit_one_by_one(ms, act, view, dsk, uri, edits, compute_undo_edits) ==
  LET o == IF HasModel(ms, uri)
           THEN [ok |-> TRUE, models |-> ms, active |-> act, lsp |-> view, disk |-> dsk,
                 msgs |-> <<>>, mid |-> get_model(ms, uri).m_id, undo |-> <<>>, pre |-> NoSnap]
           ELSE open_file(ms, act, view, dsk, uri)
  IN
  IF ~o.ok THEN o
  ELSE LET tm == ModelById(o.models, o.mid)
           r == OneByOne(tm, edits, 1)
       IN  [ok |-> r.ok,
            models |-> ReplaceModel(o.models, r.model),
            active |-> o.active,
            lsp |-> IF r.ok THEN LspDidChange(o.lsp, uri, r.model.version, content_changes(edits))
                    ELSE o.lsp,
            disk |-> dsk,
            msgs |-> IF r.ok
                     THEN o.msgs \o <<DidChange(uri, r.model.version, content_changes(edits))>>
                     ELSE o.msgs,
            mid |-> tm.m_id,
            undo |-> <<>>,
            pre |-> Snap(tm.content, tm.version)]

apply_edit(ms, act, view, dsk, uri, edits, compute_undo_edits) ==
  LET o == IF HasModel(ms, uri)
           THEN [ok |-> TRUE, models |-> ms, active |-> act, lsp |-> view, disk |-> dsk,
                 msgs |-> <<>>, mid |-> get_model(ms, uri).m_id, undo |-> <<>>, pre |-> NoSnap]
           ELSE open_file(ms, act, view, dsk, uri)
  IN
  IF ~o.ok THEN o
  ELSE IF \E i \in 1..Len(edits) : ~ValidatesAsEdit(edits[i])
  THEN [o EXCEPT !.ok = FALSE]
  ELSE LET tm == ModelById(o.models, o.mid)
           r == model_apply_edits(tm, edits, compute_undo_edits)
       IN  IF ~r.ok THEN [o EXCEPT !.ok = FALSE]
           ELSE [ok |-> TRUE,
                 models |-> ReplaceModel(o.models, r.model),
                 active |-> o.active,
                 lsp |-> LspDidChange(o.lsp, uri, r.model.version, content_changes(edits)),
                 disk |-> dsk,
                 msgs |-> o.msgs \o <<DidChange(uri, r.model.version, content_changes(edits))>>,
                 mid |-> tm.m_id,
                 undo |-> r.undo,
                 pre |-> Snap(tm.content, tm.version)]

\* the edit with which create_file appends init_content to the new model
append_init_content(tm, init_content) ==
  LET lc == get_line_count(tm.content)
      at == Pos(lc, get_line_length(tm.content, lc) + 1)
  IN  [range |-> Rng(at, at),
       text |-> IF lc > 1 THEN <<NL>> \o init_content ELSE init_content]

\* header_generators: the default generator for .py, followed by one a caller
\* supplied for every path that ends in y
header_generators ==
  <<[file_type |-> ".py", header |-> Header], [file_type |-> "y", header |-> <<"g", NL>>]>>

\* file_path.endswith(file_type)
EndsWith(uri, file_type) == file_type \in {".py", "y"} /\ uri \in PyUris

RECURSIVE WriteAll(_, _)
WriteAll(uri, i) ==
  IF i > Len(header_generators) THEN [text |-> <<>>, invoked |-> <<>>]
  ELSE LET rest == WriteAll(uri, i + 1) IN
       IF EndsWith(uri, header_generators[i].file_type)
       THEN [text |-> header_generators[i].header \o rest.text,
             invoked |-> <<header_generators[i].file_type>> \o rest.invoked]
       ELSE rest

\* the loop over header_generators without its break
write_header_no_break(uri) == WriteAll(uri, 1)

\* the loop over header_generators in create_file: what is written to the new
\* file, and the generators that were invoked
write_header(uri) ==
  LET hits == {i \in 1..Len(header_generators) : EndsWith(uri, header_generators[i].file_type)} IN
  IF hits = {} THEN [text |-> <<>>, invoked |-> <<>>]
  ELSE LET i == CHOOSE k \in hits : \A j \in hits : k <= j IN
       [text |-> header_generators[i].header, invoked |-> <<header_generators[i].file_type>>]

\* create_file once the path is free: the file is written, its model built,
\* appended, activated and announced
new_file(ms, act, view, dsk, uri, init_content) ==
  LET header == write_header(uri).text
      tm0 == TextModel(NewId(ms, uri), uri, header)
      tm == IF init_content # <<>>
            THEN model_apply_edits(tm0, <<append_init_content(tm0, init_content)>>, FALSE).model
            ELSE tm0
      r == active_model(Append(ms, tm), act, tm.m_id)
  IN  [ok |-> TRUE, models |-> r.models, active |-> r.active,
       lsp |-> CloseAll(view, r.closed),
       disk |-> [dsk EXCEPT ![uri] = File(header)],
       msgs |-> r.msgs \o <<Msg("workspace/didCreateFiles", uri, NoVersion, NoId)>>,
       mid |-> tm.m_id, undo |-> <<>>, pre |-> NoSnap]

\* create_file that lets overwrite win over ignore_if_exists
create_file_overwrite_first(ms, act, view, dsk, uri, init_content, overwrite, ignore_if_exists) ==
  IF dsk[uri].exists /\ ~overwrite
  THEN IF ignore_if_exists THEN [WsFail(ms, act, view, dsk) EXCEPT !.ok = TRUE]
       ELSE WsFail(ms, act, view, dsk)
  ELSE new_file(ms, act, view, dsk, uri, init_content)

create_file(ms, act, view, dsk, uri, init_content, overwrite, ignore_if_exists) ==
  IF dsk[uri].exists /\ ignore_if_exists
  THEN [WsFail(ms, act, view, dsk) EXCEPT !.ok = TRUE]
  ELSE IF dsk[uri].exists /\ ~overwrite
  THEN WsFail(ms, act, view, dsk)
  ELSE new_file(ms, act, view, dsk, uri, init_content)

close_file(ms, act, view, dsk, uri) ==
  IF ~HasModel(ms, uri) THEN WsFail(ms, act, view, dsk)
  ELSE LET tm == get_model(ms, uri)
       IN  [ok |-> TRUE, models |-> WithoutModel(ms, tm.m_id), active |-> Without(act, tm.m_id),
            lsp |-> LspDidClose(view, uri), disk |-> dsk,
            msgs |-> <<Msg("textDocument/didClose", uri, NoVersion, NoId)>>,
            mid |-> tm.m_id, undo |-> <<>>, pre |-> NoSnap]

save_file(ms, act, view, dsk, uri) ==
  IF ~HasModel(ms, uri) THEN WsFail(ms, act, view, dsk)
  ELSE [ok |-> TRUE, models |-> ms, active |-> act, lsp |-> view,
        disk |-> [dsk EXCEPT ![uri] = File(get_model(ms, uri).content)],
        msgs |-> <<>>, mid |-> get_model(ms, uri).m_id, undo |-> <<>>, pre |-> NoSnap]

\* render: one documentSymbol request for every active model but the last
RECURSIVE SymbolRequests(_, _, _)
SymbolRequests(ms, act, id) ==
  IF Len(act) <= 1 THEN <<>>
  ELSE <<Msg("textDocument/documentSymbol", ModelById(ms, Head(act)).uri, NoVersion, id + 1)>>
       \o SymbolRequests(ms, Tail(act), id + 1)

\* render: the document shown in full and the outline sections, one for every
\* other active model, each with the analyzer's answer to its request
\* render that moves the document it shows in full to the front
render_activating(ms, act, id, answers) ==
  [full |-> IF Len(act) > 0 THEN act[Len(act)] ELSE NoModel,
   outlines |-> [i \in 1..(Len(act) - 1) |->
                   [mid |-> act[i], id |-> id + i, shown |-> answers[i]]],
   msgs |-> SymbolRequests(ms, act, id),
   active |-> IF Len(act) > 0 THEN <<act[Len(act)]>> \o SubSeq(act, 1, Len(act) - 1) ELSE act]

render_oldest_in_full(ms, act, id, answers) ==
  [full |-> IF Len(act) > 0 THEN act[1] ELSE NoModel,
   outlines |-> [i \in 1..(Len(act) - 1) |->
                   [mid |-> act[i + 1], id |-> id + i, shown |-> answers[i]]],
   msgs |-> SymbolRequests(ms, act, id),
   active |-> act]

render(ms, act, id, answers) ==
  [full |-> IF Len(act) > 0 THEN act[Len(act)] ELSE NoModel,
   outlines |-> [i \in 1..(Len(act) - 1) |->
                   [mid |-> act[i], id |-> id + i, shown |-> answers[i]]],
   msgs |-> SymbolRequests(ms, act, id),
   active |-> act]

\* ------------------------------------------------------------------------
\* Actions of the workspace
\* ------------------------------------------------------------------------
Others == UNCHANGED <<journal, instances, lock, threads, built, ide_closed, terminals, active_terminal_index>>

RestIdle ==
  /\ res' = NoRes
  /\ Others

CommitRes(op, uri, r, rt, n, invalid, rs) ==
  /\ models' = r.models
  /\ active_models' = r.active
  /\ lsp' = r.lsp
  /\ disk' = r.disk
  /\ sent' = r.msgs
  /\ last' = [op |-> op, uri |-> uri, ok |-> r.ok, n |-> n, invalid |-> invalid, undo |-> r.undo, pre |-> r.pre, rt |-> rt]
  /\ res' = rs
  /\ UNCHANGED <<pc, handshake, lsp_msg_id, undo_stack>>
  /\ Others

Commit(op, uri, r, rt, n, invalid) == CommitRes(op, uri, r, rt, n, invalid, NoRes)

\* _assert_not_closed fails
Rejected(op, uri) ==
  /\ last' = Outcome(op, uri, FALSE)
  /\ sent' = <<>>
  /\ UNCHANGED <<pc, handshake, lsp_msg_id, models, active_models, disk, lsp, undo_stack>>
  /\ RestIdle

\* PyWorkspace(...): launches the analyzer and runs _initial_lsp
Construct(resp) ==
  /\ pc = "new"
  /\ LET r == initial_lsp(resp, lsp_msg_id + 1) IN
     /\ lsp_msg_id' = lsp_msg_id + 1
     /\ sent' = r.msgs
     /\ handshake' = [resp |-> resp,
                      initialize |-> Cardinality({i \in 1..Len(r.msgs) : r.msgs[i].method = "initialize"}),
                      initialized |-> Cardinality({i \in 1..Len(r.msgs) : r.msgs[i].method = "initialized"})]
     /\ pc' = IF r.raised THEN "failed" ELSE "live"
     /\ last' = Outcome("construct", None, ~r.raised)
  /\ UNCHANGED <<models, active_models, disk, lsp, undo_stack>>
  /\ RestIdle

Callable == pc \in {"live", "closed"}

OpenFile(uri) ==
  /\ Callable
  /\ IF pc = "closed" THEN Rejected("open_file", uri)
     ELSE \E r \in {open_file(models, active_models, lsp, disk, uri)} :
             Commit("open_file", uri, r, NoSnap, 0, FALSE)

ActiveModel(id) ==
  /\ pc = "live"
  /\ id \in ModelIds(models)
  /\ LET r == active_model(models, active_models, id) IN
     /\ models' = r.models
     /\ active_models' = r.active
     /\ lsp' = CloseAll(lsp, r.closed)
     /\ sent' = r.msgs
     /\ last' = Outcome("active_model", ModelById(models, id).uri, TRUE)
  /\ UNCHANGED <<pc, handshake, lsp_msg_id, disk, undo_stack>>
  /\ RestIdle

\* the edits returned by the last apply_edit, converted the way its caller does
UndoOfLast ==
  IF last.op = "apply_edit" /\ last.ok /\ last.undo # <<>>
  THEN {[i \in 1..Len(last.undo) |-> to_single_edit_operation(last.undo[i])]}
  ELSE {}

WithinBounds(r, uri) ==
  \A i \in 1..Len(r.models) :
     r.models[i].version <= MaxVersion /\ Len(r.models[i].content) <= MaxLen

\* the text a batch for uri is validated against
BufferOf(uri) == IF HasModel(models, uri) THEN get_model(models, uri).content ELSE disk[uri].text

AnyInvalid(t, edits) ==
  \E i \in 1..Len(edits) : ~ValidatesAsEdit(edits[i]) \/ ~ValidRange(t, edits[i].range)

ApplyEdit(uri, edits, compute_undo_edits) ==
  /\ Callable
  /\ IF pc = "closed" THEN Rejected("apply_edit", uri)
     ELSE \E r \in {apply_edit(models, active_models, lsp, disk, uri, edits, compute_undo_edits)} :
          \E tracked \in {[r EXCEPT !.pre = IF r.ok /\ compute_undo_edits THEN r.pre ELSE NoSnap]},
             rt \in {IF edits \in UndoOfLast /\ last.uri = uri /\ ~compute_undo_edits
                     THEN last.pre ELSE NoSnap},
             invalid \in {(HasModel(models, uri) \/ disk[uri].exists)
                          /\ AnyInvalid(BufferOf(uri), edits)} :
          /\ WithinBounds(r, uri)
          /\ Commit("apply_edit", uri, tracked, rt, Len(edits), invalid)

CreateFile(uri, init_content, overwrite, ignore_if_exists) ==
  /\ Callable
  /\ IF pc = "closed" THEN Rejected("create_file", uri)
     ELSE \E r \in {create_file(models, active_models, lsp, disk, uri, init_content,
                                overwrite, ignore_if_exists)} :
             Commit("create_file", uri, r, NoSnap, 0, FALSE)

CloseFile(uri) ==
  /\ Callable
  /\ IF pc = "closed" THEN Rejected("close_file", uri)
     ELSE \E r \in {close_file(models, active_models, lsp, disk, uri)} :
             Commit("close_file", uri, r, NoSnap, 0, FALSE)

SaveFile(uri) ==
  /\ Callable
  /\ IF pc = "closed" THEN Rejected("save_file", uri)
     ELSE \E r \in {save_file(models, active_models, lsp, disk, uri)} :
             Commit("save_file", uri, r, NoSnap, 0, FALSE)

\* find_in_file reads the open model, or a model of its own built from the file
FindInFile(uri) ==
  /\ Callable
  /\ last' = Outcome("find_in_file", uri, HasModel(models, uri) \/ disk[uri].exists)
  /\ sent' = <<>>
  /\ UNCHANGED <<pc, handshake, lsp_msg_id, models, active_models, disk, lsp, undo_stack>>
  /\ RestIdle

Render ==
  /\ Callable
  /\ IF pc = "closed" THEN Rejected("render", None)
     ELSE /\ lsp_msg_id + Len(active_models) - 1 <= MaxMsgId
          /\ sent' = SymbolRequests(models, active_models, lsp_msg_id)
          /\ lsp_msg_id' = lsp_msg_id + Len(sent')
          /\ last' = Outcome("render", None, TRUE)
          /\ UNCHANGED <<pc, handshake, models, active_models, disk, lsp, undo_stack>>
          /\ RestIdle

\* BaseWorkspace.close: every document is closed, then the analyzer is shut down
Close ==
  /\ pc = "live"
  /\ pc' = "closed"
  /\ models' = <<>>
  /\ active_models' = <<>>
  /\ lsp' = [u \in URIs |-> NoDoc]
  /\ lsp_msg_id' = lsp_msg_id + 1
  /\ sent' = [i \in 1..Len(models) |-> Msg("textDocument/didClose", models[i].uri, NoVersion, NoId)]
             \o <<Msg("shutdown", None, NoVersion, lsp_msg_id + 1)>>
  /\ last' = Outcome("close", None, TRUE)
  /\ UNCHANGED <<handshake, disk, undo_stack>>
  /\ RestIdle

WsInit ==
  /\ pc = "new"
  /\ handshake = [resp |-> None, initialize |-> 0, initialized |-> 0]
  /\ lsp_msg_id = 0
  /\ models = <<>>
  /\ active_models = <<>>
  /\ disk = InitDisk
  /\ lsp = [u \in URIs |-> NoDoc]
  /\ sent = <<>>
  /\ last = Outcome("none", None, TRUE)
  /\ res = NoRes

Projects == {"p", "q"}
Styles == {"keyword", "positional"}
Threads == 1..MaxThreads
ClassName == "PyIDESingleton"
Keys == {<<ClassName, x>> : x \in Projects \cup {""}}
NoInstance == 0
NoThread == 0
Idle == [pc |-> "idle", project |-> "", style |-> "keyword", key |-> <<ClassName, "">>,
         got |-> NoInstance, calls |-> 0]

ToolInit ==
  /\ undo_stack = [u \in URIs |-> <<>>]
  /\ journal = [u \in URIs |-> [n |-> 0, pushed |-> <<>>, trail |-> <<>>, undone |-> FALSE]]

RegIdle ==
  /\ instances = [k \in Keys |-> NoInstance]
  /\ lock = NoThread
  /\ threads = [t \in Threads |-> Idle]
  /\ built = <<>>
  /\ ide_closed = {}
  /\ terminals = <<>>
  /\ active_terminal_index = NoIndex

Init ==
  /\ WsInit
  /\ ToolInit
  /\ RegIdle

Next ==
  \/ \E resp \in Responses : Construct(resp)
  \/ \E u \in URIs : OpenFile(u)
  \/ \E id \in AllIds : ActiveModel(id)
  \/ \E u \in EditUris, edits \in SmallBatches, cu \in BOOLEAN : ApplyEdit(u, edits, cu)
  \/ \E u \in CreateUris, ic \in InitContents, ow \in {FALSE}, ig \in BOOLEAN : CreateFile(u, ic, ow, ig)
  \/ \E u \in URIs : CloseFile(u)
  \/ \E u \in CreateUris : SaveFile(u)
  \/ Render
  \/ Close

Spec == Init /\ [][Next]_vars

\* ------------------------------------------------------------------------
\* The editing of one document of a constructed workspace
\* ------------------------------------------------------------------------
LiveWorkspace ==
  /\ pc = "live"
  /\ handshake = [resp |-> "ok", initialize |-> 1, initialized |-> 1]
  /\ lsp_msg_id = 1
  /\ models = <<>>
  /\ active_models = <<>>
  /\ disk = InitDisk
  /\ lsp = [u \in URIs |-> NoDoc]
  /\ sent = <<>>
  /\ last = Outcome("construct", None, TRUE)
  /\ ToolInit
  /\ RegIdle

InitEdit ==
  /\ LiveWorkspace
  /\ res = NoRes

NextEdit ==
  \/ \E u \in EditUris : OpenFile(u)
  \/ \E u \in EditUris, edits \in EditBatches \cup UndoOfLast, cu \in BOOLEAN : ApplyEdit(u, edits, cu)
  \/ \E u \in EditUris : CloseFile(u)
  \/ \E u \in EditUris : SaveFile(u)
  \/ \E u \in EditUris : FindInFile(u)
  \/ Render

SpecEdit == InitEdit /\ [][NextEdit]_vars

\* ------------------------------------------------------------------------
\* ClaudeEditorTool: str_replace, insert and undo_edit with their undo stack
\* ------------------------------------------------------------------------
DeepUris == {"a.py"}
LifoUris == {"b.py", "c.txt"}
Chars == {"a", "b"}
InsertLines == {0, 1}
InsertTexts == {<<"b">>}
TrackedCap(uri) == IF uri = "a.py" THEN MaxTracked ELSE MaxTrackedOther

\* convert_edit_range_to_range: negative indices count from the end
adjust_line(sl, lc) ==
  IF sl = 0 \/ (IF sl < 0 THEN -sl ELSE sl) > lc THEN [ok |-> FALSE, v |-> 0]
  ELSE [ok |-> TRUE, v |-> IF sl > 0 THEN sl ELSE lc + sl + 1]

\* adjust_char that counts a negative character from the last character of the line
adjust_char_short(t, sc, al) ==
  LET sll == get_line_length(t, al) IN
  IF sc = 0 \/ (IF sc < 0 THEN -sc ELSE sc) > sll + 1 THEN [ok |-> FALSE, v |-> 0]
  ELSE [ok |-> TRUE, v |-> IF sc > 0 THEN sc ELSE sll + sc + 1]

adjust_char(t, sc, al) ==
  LET sll == get_line_length(t, al) IN
  IF sc = 0 \/ (IF sc < 0 THEN -sc ELSE sc) > sll + 1 THEN [ok |-> FALSE, v |-> 0]
  ELSE [ok |-> TRUE, v |-> IF sc > 0 THEN sc ELSE sll + sc + 2]

NoRange == Rng(Pos(0, 0), Pos(0, 0))

convert_edit_range_to_range(edit_range, t) ==
  LET lc == get_line_count(t)
      sl == adjust_line(edit_range.start_position.line, lc)
      el == adjust_line(edit_range.end_position.line, lc)
  IN
  IF ~sl.ok \/ ~el.ok THEN [ok |-> FALSE, range |-> NoRange]
  ELSE LET sc == adjust_char(t, edit_range.start_position.character, sl.v)
           ec == adjust_char(t, edit_range.end_position.character, el.v)
       IN  IF ~sc.ok \/ ~ec.ok THEN [ok |-> FALSE, range |-> NoRange]
           ELSE LET sp == Pos(sl.v, sc.v)
                    ep == Pos(el.v, ec.v)
                IN  IF sp # validate_position(t, sp) \/ ep # validate_position(t, ep)
                    THEN [ok |-> FALSE, range |-> NoRange]
                    ELSE [ok |-> TRUE, range |-> Rng(sp, ep)]

\* construct_single_edit_operation: whole lines, or an insertion at a line's start or end
\* construct_single_edit_operation that takes any column
construct_single_edit_operation_any_column(edit, t) ==
  LET r == convert_edit_range_to_range(edit.range, t) IN
  [ok |-> r.ok, why |-> IF r.ok THEN "ok" ELSE "coordinate",
   edit |-> [range |-> r.range, text |-> edit.new_text]]

construct_single_edit_operation(edit, t) ==
  IF edit.range.start_position.character \notin {1, -1}
     \/ edit.range.end_position.character \notin {1, -1}
  THEN [ok |-> FALSE, why |-> "granularity", edit |-> [range |-> NoRange, text |-> <<>>]]
  ELSE LET r == convert_edit_range_to_range(edit.range, t) IN
       [ok |-> r.ok, why |-> IF r.ok THEN "ok" ELSE "coordinate",
        edit |-> [range |-> r.range, text |-> edit.new_text]]

\* replace_in_file: one edit for every occurrence of query, applied as one batch
RECURSIVE ReplaceEdits(_, _, _, _)
ReplaceEdits(t, query, replacement, i) ==
  IF i > Len(t) THEN <<>>
  ELSE IF t[i] = query
  THEN <<[range |-> Rng(get_position_at(t, i - 1), get_position_at(t, i)), text |-> <<replacement>>]>>
       \o ReplaceEdits(t, query, replacement, i + 1)
  ELSE ReplaceEdits(t, query, replacement, i + 1)

replace_in_file(ms, act, view, dsk, uri, query, replacement, compute_undo_edits) ==
  LET o == open_file(ms, act, view, dsk, uri) IN
  IF ~o.ok THEN o
  ELSE LET edits == ReplaceEdits(ModelById(o.models, o.mid).content, query, replacement, 1) IN
       IF edits = <<>> THEN o
       ELSE apply_edit(o.models, o.active, o.lsp, o.disk, uri, edits, compute_undo_edits)

\* deque(maxlen=10).append that keeps every entry
Push_unbounded(stack, entry) == Append(stack, entry)

\* deque(maxlen=10).append
Push(stack, entry) ==
  IF Len(stack) >= UndoMaxLen THEN Append(Tail(stack), entry) ELSE Append(stack, entry)

\* deque.pop that takes the entry from the left end
Pop_left(stack) == [entry |-> Head(stack), rest |-> Tail(stack)]

\* deque.pop
Pop(stack) == [entry |-> stack[Len(stack)], rest |-> SubSeq(stack, 1, Len(stack) - 1)]

Front(q) == SubSeq(q, 1, Len(q) - 1)
LastN(q, n) == SubSeq(q, Len(q) - n + 1, Len(q))

\* the part of a command after its edit step r: the undo entry is pushed when
\* the step returned one, then the file is saved; success is that of the save
Track(op, uri, before, r) ==
  \E s \in {save_file(r.models, r.active, r.lsp, r.disk, uri)},
     tracked \in {r.ok /\ r.undo # <<>>} :
  /\ \A i \in 1..Len(s.models) : Len(s.models[i].content) <= MaxLen
  /\ undo_stack' = [undo_stack EXCEPT ![uri] = IF tracked THEN Push(@, r.undo) ELSE @]
  /\ journal' = [journal EXCEPT ![uri] =
                   IF tracked
                   THEN [n |-> @.n + 1,
                         pushed |-> IF @.undone THEN <<>> ELSE Append(@.pushed, r.undo),
                         trail |-> LastN(Append(@.trail, before), Len(undo_stack'[uri])),
                         undone |-> @.undone]
                   ELSE @]
  /\ models' = s.models
  /\ active_models' = s.active
  /\ lsp' = s.lsp
  /\ disk' = s.disk
  /\ sent' = r.msgs \o s.msgs
  /\ last' = [Outcome(op, uri, s.ok) EXCEPT !.undo = r.undo, !.n = IF tracked THEN 1 ELSE 0]
  /\ res' = NoRes
  /\ UNCHANGED <<pc, handshake, lsp_msg_id>>
  /\ UNCHANGED regVars /\ UNCHANGED ideVars

\* a command that raises before its edit step
Raised(op, uri, o) ==
  /\ models' = o.models
  /\ active_models' = o.active
  /\ lsp' = o.lsp
  /\ disk' = o.disk
  /\ sent' = o.msgs
  /\ last' = Outcome(op, uri, FALSE)
  /\ res' = NoRes
  /\ UNCHANGED <<pc, handshake, lsp_msg_id, undo_stack, journal>>
  /\ UNCHANGED regVars /\ UNCHANGED ideVars

StrReplace(uri, query, replacement) ==
  /\ pc = "live"
  /\ journal[uri].n < TrackedCap(uri)
  /\ \E r \in {replace_in_file(models, active_models, lsp, disk, uri, query, replacement, TRUE)} :
        Track("str_replace", uri, BufferOf(uri), r)

Insert(uri, insert_line, new_str) ==
  /\ pc = "live"
  /\ journal[uri].n < TrackedCap(uri)
  /\ \E o \in {open_file(models, active_models, lsp, disk, uri)} :
        IF ~o.ok THEN Raised("insert", uri, o)
        ELSE \E tm \in {ModelById(o.models, o.mid)} :
             \E c \in {construct_single_edit_operation(
                         [range |-> Rng(Pos(insert_line + 1, 1), Pos(insert_line + 1, 1)),
                          new_text |-> new_str], tm.content)} :
                IF ~c.ok THEN Raised("insert", uri, o)
                ELSE \E r \in {apply_edit(o.models, o.active, o.lsp, o.disk, uri, <<c.edit>>, TRUE)} :
                        Track("insert", uri, tm.content, r)

\* undo_edit that takes an empty history for an entry without edits
undo_entry_lenient(stack) ==
  IF stack = <<>> THEN [raised |-> FALSE, exc |-> None, entry |-> <<>>, rest |-> <<>>]
  ELSE [raised |-> FALSE, exc |-> None, entry |-> Pop(stack).entry, rest |-> Pop(stack).rest]

\* undo_edit: self._undo_stack[uri].pop(); the pop of an empty deque raises
\* IndexError, an entry without edits raises ValueError
undo_entry(stack) ==
  IF stack = <<>> THEN [raised |-> TRUE, exc |-> "IndexError", entry |-> <<>>, rest |-> <<>>]
  ELSE IF Pop(stack).entry = <<>>
  THEN [raised |-> TRUE, exc |-> "ValueError", entry |-> <<>>, rest |-> Pop(stack).rest]
  ELSE [raised |-> FALSE, exc |-> None, entry |-> Pop(stack).entry, rest |-> Pop(stack).rest]

UndoEdit(uri) ==
  /\ pc = "live"
  /\ \E p \in {undo_entry(undo_stack[uri])} :
     IF p.raised
     THEN /\ models' = models
          /\ active_models' = active_models
          /\ lsp' = lsp
          /\ disk' = disk
          /\ sent' = <<>>
          /\ last' = Outcome("undo_edit", uri, FALSE)
          /\ res' = [op |-> "undo_edit", input |-> uri, out |-> [raised |-> TRUE, exc |-> p.exc]]
          /\ undo_stack' = [undo_stack EXCEPT ![uri] = p.rest]
          /\ UNCHANGED <<pc, handshake, lsp_msg_id, journal>>
          /\ UNCHANGED regVars /\ UNCHANGED ideVars
     ELSE
          \E r \in {apply_edit(models, active_models, lsp, disk, uri,
                               [i \in 1..Len(p.entry) |-> to_single_edit_operation(p.entry[i])],
                               FALSE)} :
          \E s \in {save_file(r.models, r.active, r.lsp, r.disk, uri)} :
              /\ undo_stack' = [undo_stack EXCEPT ![uri] = p.rest]
              /\ journal' = [journal EXCEPT ![uri] =
                               [n |-> @.n, pushed |-> <<>>, trail |-> Front(@.trail), undone |-> TRUE]]
              /\ models' = s.models
              /\ active_models' = s.active
              /\ lsp' = s.lsp
              /\ disk' = s.disk
              /\ sent' = r.msgs \o s.msgs
              /\ last' = [Outcome("undo_edit", uri, s.ok) EXCEPT !.n = 1, !.invalid = ~r.ok]
              /\ res' = NoRes
              /\ UNCHANGED <<pc, handshake, lsp_msg_id>>
              /\ UNCHANGED regVars /\ UNCHANGED ideVars

\* one document edited up to MaxTracked times
InitUndo == InitEdit

NextUndo ==
  \/ \E u \in DeepUris, q \in Chars : \E r \in Chars \ {q} : StrReplace(u, q, r)
  \/ \E u \in DeepUris : UndoEdit(u)

SpecUndo == InitUndo /\ [][NextUndo]_vars

\* two documents, each edited up to MaxTrackedOther times
InitLifo == InitEdit

NextLifo ==
  \/ \E u \in LifoUris, q \in Chars : \E r \in Chars \ {q} : StrReplace(u, q, r)
  \/ \E u \in LifoUris, l \in InsertLines, txt \in InsertTexts : Insert(u, l, txt)
  \/ \E u \in LifoUris : UndoEdit(u)

SpecLifo == InitLifo /\ [][NextLifo]_vars

\* ------------------------------------------------------------------------
\* Range arithmetic: a negative character counts from the end of its line,
\* so it lies behind every character counted from the start
\* ------------------------------------------------------------------------
CharLeq(c, d) == IF c < 0 THEN d < 0 /\ c <= d ELSE d < 0 \/ c <= d

PosLeq(p, q) == p.line < q.line \/ (p.line = q.line /\ CharLeq(p.character, q.character))

\* Range.__and__: the two ranges overlap or touch
Intersects(r1, r2) ==
  /\ PosLeq(r1.start_position, r2.end_position)
  /\ PosLeq(r2.start_position, r1.end_position)

\* Range.__or__: the smallest range that covers both
Union(r1, r2) ==
  Rng(IF PosLeq(r1.start_position, r2.start_position) THEN r1.start_position ELSE r2.start_position,
      IF PosLeq(r1.end_position, r2.end_position) THEN r2.end_position ELSE r1.end_position)

\* len(text.splitlines())
SplitLinesCount(text) ==
  IF text = <<>> THEN 0
  ELSE NLBefore(text, Len(text)) + (IF text[Len(text)] = NL THEN 0 ELSE 1)

\* the window step shows around one edit: 3 lines before it and 3 lines after its new text
content_range(edit) ==
  Rng(Pos(IF edit.range.start_position.line - 3 < 1 THEN 1 ELSE edit.range.start_position.line - 3, 1),
      Pos(edit.range.end_position.line + SplitLinesCount(edit.text) + 3, 1))

\* list.sort(key=start line): stable
SortByStartLine(rs) ==
  [k \in 1..Len(rs) |->
     rs[CHOOSE i \in 1..Len(rs) :
          Cardinality({j \in 1..Len(rs) :
                         \/ rs[j].start_position.line < rs[i].start_position.line
                         \/ rs[j].start_position.line = rs[i].start_position.line /\ j < i}) = k - 1]]

\* the scan that leaves the accumulated range as it was when the next one intersects it
RECURSIVE MergeScan_rebind(_, _, _)
MergeScan_rebind(sorted, k, merged) ==
  IF k > Len(sorted) THEN merged
  ELSE IF merged = <<>> THEN MergeScan_rebind(sorted, k + 1, <<sorted[k]>>)
  ELSE IF Intersects(merged[Len(merged)], sorted[k])
       THEN MergeScan_rebind(sorted, k + 1, merged)
       ELSE MergeScan_rebind(sorted, k + 1, Append(merged, sorted[k]))

\* the scan over the sorted ranges: each one is merged into the last
\* accumulated range when the two intersect, and starts a new one otherwise
RECURSIVE MergeScan(_, _, _)
MergeScan(sorted, k, merged) ==
  IF k > Len(sorted) THEN merged
  ELSE IF merged = <<>> THEN MergeScan(sorted, k + 1, <<sorted[k]>>)
  ELSE IF Intersects(merged[Len(merged)], sorted[k])
       THEN MergeScan(sorted, k + 1,
                      [merged EXCEPT ![Len(merged)] = Union(merged[Len(merged)], sorted[k])])
       ELSE MergeScan(sorted, k + 1, Append(merged, sorted[k]))

\* the merge in which an intersecting range leaves the accumulated one as it was
merged_ranges_rebind(content_ranges) == MergeScan_rebind(SortByStartLine(content_ranges), 1, <<>>)

merged_ranges(content_ranges) == MergeScan(SortByStartLine(content_ranges), 1, <<>>)

\* ------------------------------------------------------------------------
\* PyWorkspace.step: one action in, one Result out
\* ------------------------------------------------------------------------
\* action_args is a dict, a bare string or neither; well_formed tells whether
\* the keys of a dict are the parameters of the operation
NoArgs ==
  [kind |-> "none", well_formed |-> TRUE, uri |-> None, edits |-> <<>>, compute_undo_edits |-> FALSE,
   init_content |-> <<>>, overwrite |-> FALSE, ignore_if_exists |-> FALSE,
   key |-> None, position |-> Pos(1, 1)]
DictArgs(uri) == [NoArgs EXCEPT !.kind = "dict", !.uri = uri]
StrArgs(uri) == [NoArgs EXCEPT !.kind = "str", !.uri = uri]
BadDictArgs(uri) == [NoArgs EXCEPT !.kind = "dict", !.uri = uri, !.well_formed = FALSE]

IDEAction(category, action_name, action_args) ==
  [category |-> category, action_name |-> action_name, action_args |-> action_args]

\* the action names that have a case of step whose method is not followed here:
\* the case returns a Result, failed when the arguments are not a dict
OtherCaseNames == {"read_file", "get_file_symbols", "replace_in_file", "delete_cursor",
                   "clear_cursors", "inspect_grammar_err"}
\* the action names whose case of step is followed here
HandledNames == {"open_file", "apply_edit", "save_file", "close_file", "create_file",
                 "find_in_file", "insert_cursor"}
\* the names of the case that raises NotImplementedError
UnimplementedNames == {"get_definition_and_implementation", "hover", "find_in_workspace",
                       "replace_in_workspace", "create_files", "delete_files", "rename_file",
                       "delete_file"}

\* construct_action that does not look at the category
construct_action_any_category(action) ==
  IF action.action_name \notin HandledNames \cup OtherCaseNames \cup UnimplementedNames
  THEN [ok |-> FALSE, exc |-> "ValueError", msg |-> "unsupported action"]
  ELSE [ok |-> TRUE, exc |-> None, msg |-> None]

construct_action(action) ==
  IF action.category = "terminal"
  THEN [ok |-> FALSE, exc |-> "ValueError", msg |-> "unsupported category"]
  ELSE IF action.category = "workspace"
  THEN IF action.action_name \notin HandledNames \cup OtherCaseNames \cup UnimplementedNames
       THEN [ok |-> FALSE, exc |-> "ValueError", msg |-> "unsupported action"]
       ELSE [ok |-> TRUE, exc |-> None, msg |-> None]
  ELSE [ok |-> FALSE, exc |-> "ValueError", msg |-> "unsupported category"]

Same(ms, act, view, dsk) == [WsFail(ms, act, view, dsk) EXCEPT !.ok = TRUE]

\* step raises exc
Raise(o, exc, msg) ==
  [raised |-> TRUE, exc |-> exc, msg |-> msg, obs |-> None, reward |-> 0, done |-> FALSE,
   success |-> FALSE, ranges |-> <<>>, ws |-> o]

\* return IDEObs(obs=str(e)), 0, True, False, {} with done left unset
Failed_unfinished(o, obs) ==
  [raised |-> FALSE, exc |-> None, msg |-> None, obs |-> obs, reward |-> 0, done |-> FALSE,
   success |-> FALSE, ranges |-> <<>>, ws |-> o]

\* return IDEObs(obs=str(e)), 0, True, False, {}
Failed(o, obs) ==
  [raised |-> FALSE, exc |-> None, msg |-> None, obs |-> obs, reward |-> 0, done |-> TRUE,
   success |-> FALSE, ranges |-> <<>>, ws |-> o]

\* return IDEObs(obs=...), 100, True, True, {}
Succeeded(o, obs) ==
  [raised |-> FALSE, exc |-> None, msg |-> None, obs |-> obs, reward |-> 100, done |-> TRUE,
   success |-> TRUE, ranges |-> <<>>, ws |-> o]

\* BaseWorkspace.insert_cursor: the marker key of the open document is set to position
insert_cursor(ms, act, view, dsk, uri, key, position) ==
  IF ~HasModel(ms, uri) THEN WsFail(ms, act, view, dsk)
  ELSE LET tm == get_model(ms, uri) IN
       IF validate_position(tm.content, position) # position THEN WsFail(ms, act, view, dsk)
       ELSE [Same(ms, act, view, dsk) EXCEPT
               !.models = ReplaceModel(ms, [tm EXCEPT !.cursors =
                            {c \in tm.cursors : c.key # key} \cup {[key |-> key, position |-> position]}]),
               !.mid = tm.m_id]

IsDict(a) == a.kind = "dict" /\ a.well_formed

\* case "apply_edit" of step
step_apply_edit(ms, act, view, dsk, a) ==
  IF ~IsDict(a) THEN Failed(Same(ms, act, view, dsk), "arguments")
  ELSE LET o == apply_edit(ms, act, view, dsk, a.uri, a.edits, a.compute_undo_edits) IN
       IF o.ok
       THEN [Succeeded(o, "edited") EXCEPT
               !.ranges = merged_ranges([i \in 1..Len(a.edits) |-> content_range(a.edits[i])])]
       ELSE IF (HasModel(ms, a.uri) \/ dsk[a.uri].exists)
               /\ \E i \in 1..Len(a.edits) : ~ValidatesAsEdit(a.edits[i])
       THEN Raise(o, "IDEExecutionError", "edit")
       ELSE Failed(o, "error")

\* case "save_file" of step
step_save_file(ms, act, view, dsk, a) ==
  IF ~(a.kind = "str" \/ IsDict(a)) THEN Failed(Same(ms, act, view, dsk), "arguments")
  ELSE LET o == save_file(ms, act, view, dsk, a.uri) IN
       IF o.ok THEN Succeeded(o, "saved") ELSE Failed(o, "error")

\* case "insert_cursor" of step
step_insert_cursor(ms, act, view, dsk, a) ==
  IF ~IsDict(a) THEN Failed(Same(ms, act, view, dsk), "arguments")
  ELSE LET o == insert_cursor(ms, act, view, dsk, a.uri, a.key, a.position) IN
       IF o.ok THEN Succeeded(o, "cursor") ELSE Failed(o, "error")

step(ms, act, view, dsk, action) ==
  LET a == action.action_args
      same == Same(ms, act, view, dsk)
      c == construct_action(action)
      dict == IsDict(a)
      named == a.kind = "str" \/ dict
  IN
  IF ~c.ok THEN Raise(same, c.exc, c.msg)
  ELSE CASE action.action_name = "open_file" ->
              IF ~named THEN Failed(same, "arguments")
              ELSE LET o == open_file(ms, act, view, dsk, a.uri) IN
                   IF o.ok THEN Succeeded(o, "view") ELSE Failed(o, "error")
         [] action.action_name = "apply_edit" -> step_apply_edit(ms, act, view, dsk, a)
         [] action.action_name = "save_file" -> step_save_file(ms, act, view, dsk, a)
         [] action.action_name = "close_file" ->
              IF ~named THEN Failed(same, "arguments")
              ELSE LET o == close_file(ms, act, view, dsk, a.uri) IN
                   IF o.ok THEN Succeeded(o, "closed") ELSE Failed(o, "error")
         [] action.action_name = "create_file" ->
              IF ~named THEN Failed(same, "arguments")
              ELSE LET o == create_file(ms, act, view, dsk, a.uri, a.init_content,
                                        a.overwrite, a.ignore_if_exists) IN
                   IF ~o.ok THEN Failed(o, "error")
                   ELSE IF o.mid = NoModel THEN Failed(o, "exists")
                   ELSE Succeeded(o, "created")
         [] action.action_name = "find_in_file" ->
              IF ~dict THEN Failed(same, "arguments")
              ELSE IF HasModel(ms, a.uri) \/ dsk[a.uri].exists THEN Succeeded(same, "matches")
              ELSE Failed(same, "error")
         [] action.action_name = "insert_cursor" -> step_insert_cursor(ms, act, view, dsk, a)
         [] action.action_name \in OtherCaseNames ->
              IF ~dict THEN Failed(same, "arguments")
              ELSE IF HasModel(ms, a.uri) \/ dsk[a.uri].exists THEN Succeeded(same, "done")
              ELSE Failed(same, "error")
         [] action.action_name \in UnimplementedNames ->
              Raise(same, "NotImplementedError", "unimplemented")
         [] OTHER -> Raise(same, "ValueError", "unsupported action")

\* what the caller of step holds afterwards
Seen(r) ==
  [raised |-> r.raised, exc |-> r.exc, msg |-> r.msg, obs |-> r.obs, reward |-> r.reward,
   done |-> r.done, success |-> r.success, ranges |-> r.ranges, original_result |-> r.ws.undo]

Step(action) ==
  /\ Callable
  /\ IF pc = "closed"
     THEN Rejected("step", action.action_args.uri)
     ELSE \E r \in {step(models, active_models, lsp, disk, action)} :
          /\ WithinBounds(r.ws, action.action_args.uri)
          /\ CommitRes("step", action.action_args.uri, [r.ws EXCEPT !.ok = r.success],
                       NoSnap, Len(action.action_args.edits), FALSE,
                       [op |-> "step", input |-> action, out |-> Seen(r)])

\* the action names that the tool wrappers of tool.py send with category workspace
ToolActionNames == {"open_file", "apply_edit", "save_file", "inspect_grammar_err", "close_file",
                    "read_file", "get_file_symbols", "find_in_file", "replace_in_file",
                    "insert_cursor", "delete_cursor", "clear_cursor", "create_file"}

\* _run of a tool wrapper: self._ide.step(IDEAction(category="workspace",
\* action_name=..., action_args={"uri": uri, ...}).model_dump())
ToolRun(action_name, uri) == Step(IDEAction("workspace", action_name, DictArgs(uri)))

\* the actions given to step: well-formed and malformed arguments, unsupported
\* names and categories
StepUris == {"a.py", "d.py"}
StepBatches == {<<InsertA>>, <<InsertA, Reversed>>, <<ZeroBased>>, <<BeyondLine>>}
ArgForms(u) == {DictArgs(u), StrArgs(u), BadDictArgs(u), NoArgs}
StepActions ==
  {IDEAction("workspace", n, a) :
     n \in {"open_file", "save_file", "close_file", "find_in_file"},
     a \in ArgForms("a.py") \cup {DictArgs("d.py")}}
  \cup {IDEAction("workspace", "apply_edit", [DictArgs("a.py") EXCEPT !.edits = b]) : b \in StepBatches}
  \cup {IDEAction("workspace", "apply_edit",
                  [DictArgs("a.py") EXCEPT !.edits = <<InsertA>>, !.compute_undo_edits = TRUE])}
  \cup {IDEAction("workspace", "apply_edit", a) : a \in {StrArgs("a.py"), BadDictArgs("a.py"), NoArgs}}
  \cup {IDEAction("workspace", "create_file",
                  [DictArgs("d.py") EXCEPT !.init_content = <<"a">>, !.overwrite = ow, !.ignore_if_exists = ig]) :
          ow \in BOOLEAN, ig \in BOOLEAN}
  \cup {IDEAction("workspace", "create_file", a) : a \in {StrArgs("d.py"), BadDictArgs("d.py"), NoArgs}}
  \cup {IDEAction("workspace", "insert_cursor", [DictArgs("a.py") EXCEPT !.key = "k", !.position = p]) :
          p \in {Pos(1, 1), Pos(1, 5)}}
  \cup {IDEAction("workspace", "insert_cursor", StrArgs("a.py"))}
  \cup {IDEAction("workspace", n, DictArgs("a.py")) : n \in {"delete_file", "fly"}}
  \cup {IDEAction(c, "open_file", DictArgs("a.py")) : c \in {"terminal", "other"}}

InitStep == InitEdit

NextStep == \E action \in StepActions : Step(action)

SpecStep == InitStep /\ [][NextStep]_vars

\* ------------------------------------------------------------------------
\* The merge of the windows of a batch, on lists of ranges of its own
\* ------------------------------------------------------------------------
MaxLine == 6
MaxRanges == 2

\* ranges that start at the first column of a line, as content_range builds them
RangePool ==
  {Rng(Pos(s, 1), Pos(e, c)) : s \in 1..MaxLine, e \in 1..MaxLine, c \in {1, -1}}
  \cap {Rng(Pos(s, 1), Pos(s + d, c)) : s \in 1..MaxLine, d \in {0, 1, 2}, c \in {1, -1}}
RangeLists == SeqsUpTo(RangePool, MaxRanges)

InitMerge ==
  /\ LiveWorkspace
  /\ res \in {[op |-> "ranges", input |-> rs, out |-> <<>>] : rs \in RangeLists}

MergeRanges ==
  /\ res.op = "ranges"
  /\ res' = [op |-> "merged_ranges", input |-> res.input, out |-> merged_ranges(res.input)]
  /\ UNCHANGED <<pc, handshake, lsp_msg_id, models, active_models, disk, lsp, sent, last, undo_stack>>
  /\ Others

NextMerge == MergeRanges

SpecMerge == InitMerge /\ [][NextMerge]_vars

\* ------------------------------------------------------------------------
\* The tools that take coordinates from the agent: ApplyEditTool,
\* SimpleEditTool and InsertCursorTool, each on one drawn range
\* ------------------------------------------------------------------------
MaxCoord == 3

ToolUri == "a.py"
ToolTexts == {<<>>, <<"a">>, <<"a", "b">>, <<"a", NL>>, <<"a", NL, "b">>}
Coords == (0 - MaxCoord)..MaxCoord
Positions == {Pos(l, c) : l \in Coords, c \in Coords}
Anchors == {Pos(1, 1), Pos(1, 2), Pos(-1, -1)}
ToolRanges == {Rng(p, q) : p \in Anchors, q \in Positions} \cup {Rng(p, q) : p \in Positions, q \in Anchors}
ToolNewTexts == {<<"b">>}

\* what a tool leaves behind: the workspace, and what its caller holds
ToolRaise(o, msgs, exc, why) ==
  [raised |-> TRUE, exc |-> exc, why |-> why, success |-> FALSE, applied |-> FALSE, saved |-> FALSE,
   ws |-> [o EXCEPT !.msgs = msgs, !.ok = FALSE]]

ToolReturn(o, msgs, success, applied, saved) ==
  [raised |-> FALSE, exc |-> None, why |-> None, success |-> success, applied |-> applied,
   saved |-> saved, ws |-> [o EXCEPT !.msgs = msgs, !.ok = success]]

ToolSeen(r) ==
  [raised |-> r.raised, exc |-> r.exc, why |-> r.why, success |-> r.success,
   applied |-> r.applied, saved |-> r.saved]

ToolCommit(op, r) ==
  /\ \A i \in 1..Len(r.ws.models) : Len(r.ws.models[i].content) <= MaxLen + 1
  /\ CommitRes(op, ToolUri, r.ws, NoSnap, 1, FALSE,
               [op |-> op, input |-> res.input, out |-> ToolSeen(r)])

\* the apply_edit step and the save_file step with which both edit tools end
\* (the actions are well-formed, so step goes straight to their case);
\* save_exc is what the tool raises when the save fails, and both tells
\* whether the reported success is that of both steps or of the save alone
EditThenSave(op, o, uri, model_edits, compute_undo_edits, auto_save, save_exc, both) ==
  \E s1 \in {step_apply_edit(o.models, o.active, o.lsp, o.disk,
                             [DictArgs(uri) EXCEPT !.edits = model_edits,
                                                   !.compute_undo_edits = compute_undo_edits])} :
    IF s1.raised
    THEN ToolCommit(op, ToolRaise(s1.ws, o.msgs \o s1.ws.msgs, s1.exc, "step"))
    ELSE IF ~auto_save
    THEN ToolCommit(op, ToolReturn(s1.ws, o.msgs \o s1.ws.msgs, s1.success, s1.success, FALSE))
    ELSE \E s2 \in {step_save_file(s1.ws.models, s1.ws.active, s1.ws.lsp, s1.ws.disk,
                                   DictArgs(uri))} :
           IF ~s2.success
           THEN ToolCommit(op, ToolRaise(s2.ws, o.msgs \o s1.ws.msgs \o s2.ws.msgs, save_exc, "save"))
           ELSE ToolCommit(op, ToolReturn(s2.ws, o.msgs \o s1.ws.msgs \o s2.ws.msgs,
                                          IF both THEN s1.success /\ s2.success ELSE s2.success,
                                          s1.success, TRUE))

\* PyIDEApplyEdit._run with one edit
ApplyEditTool ==
  /\ res.op = "input"
  /\ \E compute_undo_edits \in BOOLEAN, auto_save \in BOOLEAN,
        o \in {open_file(models, active_models, lsp, disk, ToolUri)} :
       IF ~o.ok THEN ToolCommit("ApplyEditTool", ToolRaise(o, o.msgs, "OSError", "open"))
       ELSE \E c \in {construct_single_edit_operation(
                        [range |-> res.input.range, new_text |-> res.input.new_text],
                        ModelById(o.models, o.mid).content)} :
              IF ~c.ok
              THEN ToolCommit("ApplyEditTool", ToolRaise(o, o.msgs, "IDEExecutionError", c.why))
              ELSE EditThenSave("ApplyEditTool", o, ToolUri, <<c.edit>>, compute_undo_edits,
                                auto_save, "ValueError", FALSE)

Min(a, b) == IF a < b THEN a ELSE b
Max(a, b) == IF a > b THEN a ELSE b

\* _convert_edit that appends without the line separator
convert_edit_plain_append(edit, t) ==
  LET total_lines == get_line_count(t)
      beyond == edit.start_line > total_lines
      from == IF beyond THEN total_lines ELSE edit.start_line
      start_line == IF from > 0 THEN from ELSE total_lines + from + 1
      end_line == IF edit.end_line > 0 THEN edit.end_line ELSE total_lines + edit.end_line + 1
      first == IF start_line < 1 THEN 1 ELSE IF start_line > total_lines THEN total_lines ELSE start_line
      bound == IF end_line > total_lines THEN total_lines ELSE end_line
  IN  [range |-> Rng(Pos(first, IF beyond THEN -1 ELSE 1),
                     Pos(IF bound < first THEN first ELSE bound, -1)),
       new_text |-> edit.new_text]

\* PyIDEApplySimpleEdit._convert_edit
convert_edit(edit, t) ==
  LET total_lines == get_line_count(t)
      beyond == edit.start_line > total_lines
      from == IF beyond THEN total_lines ELSE edit.start_line
      start_line == IF from > 0 THEN from ELSE total_lines + from + 1
      end_line == IF edit.end_line > 0 THEN edit.end_line ELSE total_lines + edit.end_line + 1
      first == Max(1, Min(start_line, total_lines))
  IN  [range |-> Rng(Pos(first, IF beyond THEN -1 ELSE 1),
                     Pos(Max(first, Min(end_line, total_lines)), -1)),
       new_text |-> IF beyond THEN <<NL>> \o edit.new_text ELSE edit.new_text]

\* PyIDEApplySimpleEdit._run with one edit
SimpleEditTool ==
  /\ res.op = "input"
  /\ \E o \in {open_file(models, active_models, lsp, disk, ToolUri)} :
       IF ~o.ok THEN ToolCommit("SimpleEditTool", ToolRaise(o, o.msgs, "OSError", "open"))
       ELSE \E e \in {convert_edit([start_line |-> res.input.range.start_position.line,
                                    end_line |-> res.input.range.end_position.line,
                                    new_text |-> res.input.new_text],
                                   ModelById(o.models, o.mid).content)} :
            \E c \in {construct_single_edit_operation(e, ModelById(o.models, o.mid).content)} :
              IF ~c.ok
              THEN ToolCommit("SimpleEditTool", ToolRaise(o, o.msgs, "IDEExecutionError", c.why))
              ELSE EditThenSave("SimpleEditTool", o, ToolUri, <<c.edit>>, FALSE, TRUE,
                                "RuntimeError", TRUE)

\* the checks of PyIDEInsertCursor._run on a (line, character) position
cursor_position(t, position) ==
  LET line_count == get_line_count(t)
      line == IF position.line > 0 THEN position.line ELSE line_count + position.line + 1
  IN  IF position.line = 0 THEN [ok |-> FALSE, why |-> "line 0", position |-> position]
      ELSE IF Max(position.line, 0 - position.line) > line_count
      THEN [ok |-> FALSE, why |-> "line out of range", position |-> position]
      ELSE IF position.character = 0
      THEN [ok |-> FALSE, why |-> "character 0", position |-> position]
      ELSE IF Max(position.character, 0 - position.character) > get_line_length(t, line) + 1
      THEN [ok |-> FALSE, why |-> "character out of range", position |-> position]
      ELSE [ok |-> TRUE, why |-> "ok",
            position |-> Pos(line, IF position.character > 0 THEN position.character
                                   ELSE get_line_length(t, line) + position.character + 2)]

\* PyIDEInsertCursor._run
InsertCursorTool ==
  /\ res.op = "input"
  /\ \E o \in {open_file(models, active_models, lsp, disk, ToolUri)} :
       IF ~o.ok THEN ToolCommit("InsertCursorTool", ToolRaise(o, o.msgs, "OSError", "open"))
       ELSE \E p \in {cursor_position(ModelById(o.models, o.mid).content,
                                      res.input.range.start_position)} :
              IF ~p.ok
              THEN ToolCommit("InsertCursorTool", ToolRaise(o, o.msgs, "IDEExecutionError", p.why))
              ELSE \E s \in {step_insert_cursor(o.models, o.active, o.lsp, o.disk,
                                                [DictArgs(ToolUri) EXCEPT !.key = "k",
                                                                          !.position = p.position])} :
                     IF s.raised
                     THEN ToolCommit("InsertCursorTool", ToolRaise(s.ws, o.msgs \o s.ws.msgs, s.exc, "step"))
                     ELSE ToolCommit("InsertCursorTool",
                                     ToolReturn(s.ws, o.msgs \o s.ws.msgs, s.success, s.success, FALSE))

\* read_file with a code_range: the text of the document inside the range
read_file(t, code_range) ==
  SubSeq(t, get_offset_at(t, code_range.start_position) + 1, get_offset_at(t, code_range.end_position))

\* ClaudeEditorTool._run, command view, with view_range = [start_line, end_line]:
\* code_range = {"start_position": [start_line, 0], "end_position": [end_line, -1]}
ViewTool ==
  /\ res.op = "input"
  /\ \E o \in {open_file(models, active_models, lsp, disk, ToolUri)} :
       IF ~o.ok THEN ToolCommit("ViewTool", ToolRaise(o, o.msgs, "OSError", "open"))
       ELSE \E c \in {convert_edit_range_to_range(
                        Rng(Pos(res.input.range.start_position.line, 0),
                            Pos(res.input.range.end_position.line, -1)),
                        ModelById(o.models, o.mid).content)} :
              IF ~c.ok
              THEN ToolCommit("ViewTool", ToolRaise(o, o.msgs, "IDEExecutionError", "range"))
              ELSE CommitRes("ViewTool", ToolUri, o, NoSnap, 0, FALSE,
                             [op |-> "ViewTool", input |-> res.input,
                              out |-> [raised |-> FALSE, exc |-> None, why |-> None, success |-> TRUE,
                                       applied |-> FALSE, saved |-> FALSE,
                                       text |-> read_file(ModelById(o.models, o.mid).content, c.range)]])

\* convert_edit_range_to_range on the document as it is
ConvertRange ==
  /\ res.op = "input"
  /\ res' = [op |-> "convert", input |-> res.input,
             out |-> convert_edit_range_to_range(res.input.range, BufferOf(ToolUri))]
  /\ last' = Outcome("convert", ToolUri, res'.out.ok)
  /\ sent' = <<>>
  /\ UNCHANGED <<pc, handshake, lsp_msg_id, models, active_models, disk, lsp, undo_stack>>
  /\ Others

\* the same range given to PyWorkspace.apply_edit
ApplyEditDirect ==
  /\ res.op = "input"
  /\ \E r \in {apply_edit(models, active_models, lsp, disk, ToolUri,
                          <<[range |-> res.input.range, text |-> res.input.new_text]>>, FALSE)} :
        /\ \A i \in 1..Len(r.models) : Len(r.models[i].content) <= MaxLen + 1
        /\ CommitRes("apply_edit", ToolUri, r, NoSnap, 1, FALSE,
                     [op |-> "apply_edit", input |-> res.input, out |-> [ok |-> r.ok]])

InitTools ==
  /\ pc = "live"
  /\ handshake = [resp |-> "ok", initialize |-> 1, initialized |-> 1]
  /\ lsp_msg_id = 1
  /\ models = <<>>
  /\ active_models = <<>>
  /\ disk \in {[InitDisk EXCEPT ![ToolUri] = File(t)] : t \in ToolTexts}
  /\ lsp = [u \in URIs |-> NoDoc]
  /\ sent = <<>>
  /\ last = Outcome("construct", None, TRUE)
  /\ ToolInit
  /\ RegIdle
  /\ res \in {[op |-> "input", input |-> [range |-> r, new_text |-> txt], out |-> <<>>] :
                r \in ToolRanges, txt \in ToolNewTexts}

NextTools ==
  \/ ConvertRange
  \/ ApplyEditTool
  \/ SimpleEditTool
  \/ InsertCursorTool
  \/ ApplyEditDirect
  \/ ViewTool

SpecTools == InitTools /\ [][NextTools]_vars

\* ------------------------------------------------------------------------
\* create_file and render as their caller sees them
\* ------------------------------------------------------------------------
ExistingOrNew == {"a.py", "c.txt", "d.py"}
\* the analyzer's answers to documentSymbol: a result, an error, or nothing
Answers == {"symbols", "error", "none"}

CreateFileCall(uri, init_content, overwrite, ignore_if_exists) ==
  /\ Callable
  /\ IF pc = "closed" THEN Rejected("create_file", uri)
     ELSE \E r \in {create_file(models, active_models, lsp, disk, uri, init_content,
                                overwrite, ignore_if_exists)} :
             /\ CommitRes("create_file", uri, r, NoSnap, 0, FALSE,
                          [op |-> "create_file",
                           input |-> [uri |-> uri, init_content |-> init_content,
                                      overwrite |-> overwrite,
                                      ignore_if_exists |-> ignore_if_exists],
                           out |-> [raised |-> ~r.ok,
                                    exc |-> IF r.ok THEN None ELSE "FileExistsError",
                                    returned |-> r.mid,
                                    invoked |-> IF r.mid = NoModel THEN <<>>
                                                ELSE write_header(uri).invoked]])

RenderCall(answers) ==
  /\ pc = "live"
  /\ Len(answers) = Max(Len(active_models) - 1, 0)
  /\ lsp_msg_id + Len(answers) <= MaxMsgId
  /\ \E v \in {render(models, active_models, lsp_msg_id, answers)} :
       /\ sent' = v.msgs
       /\ lsp_msg_id' = lsp_msg_id + Len(v.msgs)
       /\ last' = Outcome("render", None, TRUE)
       /\ res' = [op |-> "render", input |-> answers,
                  out |-> [full |-> v.full, outlines |-> v.outlines]]
       /\ active_models' = v.active
  /\ UNCHANGED <<pc, handshake, models, disk, lsp, undo_stack>>
  /\ Others

\* insert_cursor(uri, key, position) on the workspace
InsertCursor(uri, key, position) ==
  /\ pc = "live"
  /\ \E o \in {insert_cursor(models, active_models, lsp, disk, uri, key, position)} :
       Commit("insert_cursor", uri, o, NoSnap, 0, FALSE)

InitCreate == InitEdit

\* documents are opened and closed, then one file is created, then the
\* workspace is rendered
NextCreate ==
  \/ \E uri \in URIs : res = NoRes /\ OpenFile(uri)
  \/ \E uri \in URIs : res = NoRes /\ CloseFile(uri)
  \/ \E uri \in ExistingOrNew, init_content \in InitContents, ow \in BOOLEAN, ig \in BOOLEAN :
       res = NoRes /\ CreateFileCall(uri, init_content, ow, ig)
  \/ \E uri \in EditUris : res = NoRes /\ HasModel(models, uri) /\ InsertCursor(uri, "k", Pos(1, 1))
  \/ \E answers \in SeqsUpTo(Answers, max_active_models - 1) : RenderCall(answers)

SpecCreate == InitCreate /\ [][NextCreate]_vars

\* ------------------------------------------------------------------------
\* PythonIDE.step: terminal actions go to the terminal, the others to the
\* workspace
\* ------------------------------------------------------------------------
MaxCommands == 2

cmd_white_list == {"echo", "ls"}
CommandNames == {"echo", "rm"}

\* PythonIDE.construct_action without the test of the allow-list
PythonIDE_construct_action_unchecked(action) == [ok |-> TRUE, exc |-> None]

PythonIDE_construct_action(action) ==
  IF action.category = "terminal" /\ action.action_name \notin cmd_white_list
  THEN [ok |-> FALSE, exc |-> "IDEExecutionError"]
  ELSE [ok |-> TRUE, exc |-> None]

\* IDE.terminal: `if self.active_terminal_index` is false for None and for 0
terminal(ts, index) ==
  IF index # NoIndex /\ index # 0
  THEN [terminals |-> ts, index |-> index]
  ELSE [terminals |-> Append(ts, <<>>), index |-> Len(ts)]

\* TerminalEnv.step: the terminal tests the allow-list itself, then runs the command
terminal_step(t, action) ==
  IF action.action_name \notin cmd_white_list
  THEN [raised |-> TRUE, exc |-> "ValueError", t |-> t]
  ELSE [raised |-> FALSE, exc |-> None, t |-> Append(t, action.action_name)]

IdeIdle(action, raised, exc, route) ==
  /\ res' = [op |-> "ide_step", input |-> action,
             out |-> [raised |-> raised, exc |-> exc, route |-> route]]
  /\ last' = Outcome("ide_step", None, ~raised)
  /\ sent' = <<>>
  /\ UNCHANGED <<pc, handshake, lsp_msg_id, models, active_models, disk, lsp, undo_stack>>
  /\ UNCHANGED <<journal, instances, lock, threads, built, ide_closed>>

IdeStep(action) ==
  /\ pc = "live"
  /\ \E c \in {PythonIDE_construct_action(action)} :
       IF ~c.ok
       THEN /\ IdeIdle(action, TRUE, c.exc, "rejected")
            /\ UNCHANGED ideVars
       ELSE IF action.category = "terminal"
       THEN \E g \in {terminal(terminals, active_terminal_index)} :
            \E r \in {terminal_step(g.terminals[g.index + 1], action)} :
              /\ Len(r.t) <= MaxCommands
              /\ terminals' = [g.terminals EXCEPT ![g.index + 1] = r.t]
              /\ active_terminal_index' = g.index
              /\ IdeIdle(action, r.raised, r.exc, "terminal")
       ELSE \E r \in {step(models, active_models, lsp, disk, action)} :
              CommitRes("ide_step", action.action_args.uri, [r.ws EXCEPT !.ok = r.success],
                        NoSnap, 0, FALSE,
                        [op |-> "ide_step", input |-> action,
                         out |-> [raised |-> r.raised, exc |-> r.exc, route |-> "workspace"]])

IdeActions ==
  {IDEAction("terminal", n, NoArgs) : n \in CommandNames}
  \cup {IDEAction("workspace", n, DictArgs(u)) : n \in {"open_file", "close_file"}, u \in {"a.py", "b.py", "c.txt"}}
  \cup {IDEAction("other", "open_file", DictArgs("a.py"))}

InitIde == InitEdit

NextIde == \E action \in IdeActions : IdeStep(action)

SpecIde == InitIde /\ [][NextIde]_vars

\* ------------------------------------------------------------------------
\* BashTool.execute: the call of the Bash tool of the MCP server
\* ------------------------------------------------------------------------
\* BashInput.timeout: le=600000
TimeoutLimit == 600000
\* timeout None is written 0: `if bash_input.timeout` treats both alike
BashTimeouts == {0, 1000, TimeoutLimit + 1}
BashInputs ==
  [command : CommandNames, args : {"", "x"}, timeout : BashTimeouts, description : {None, "d"},
   run_in_background : BOOLEAN, dangerously_disable_sandbox : BOOLEAN]

\* self.validate_input(arguments, BashInput): the constraints of the schema
validate_input(arguments) == arguments.timeout <= TimeoutLimit

\* the action of execute that wraps the command when a timeout is given
bash_action_with_timeout(bash_input) ==
  IDEAction("terminal", IF bash_input.timeout # 0 THEN "timeout" ELSE bash_input.command,
            bash_input.args)

\* action = {"category": "terminal", "action_name": command, "action_args": args or ""}
bash_action(bash_input) == IDEAction("terminal", bash_input.command, bash_input.args)

NoCall == [set |-> FALSE]
PrevCall == IF res = NoRes THEN NoCall ELSE [set |-> TRUE, input |-> res.input, out |-> res.out]

BashReturn(arguments, out) ==
  /\ res' = [op |-> "bash", input |-> arguments, out |-> out, prev |-> PrevCall]
  /\ last' = Outcome("bash", None, out.success)
  /\ sent' = <<>>
  /\ UNCHANGED <<pc, handshake, lsp_msg_id, models, active_models, disk, lsp, undo_stack>>
  /\ UNCHANGED <<journal, instances, lock, threads, built, ide_closed>>

\* execute: validation, the action, IDE.step (construct_action, then the
\* terminal), and the BashOutput built from what step returned or raised
BashExecute(arguments) ==
  /\ pc = "live"
  /\ IF ~validate_input(arguments)
     THEN /\ BashReturn(arguments, [validated |-> FALSE, passed |-> FALSE,
                                    action |-> bash_action(arguments), checked |-> FALSE,
                                    admitted |-> FALSE, success |-> FALSE])
          /\ UNCHANGED ideVars
     ELSE \E action \in {bash_action(arguments)} :
          \E c \in {PythonIDE_construct_action(action)} :
            IF ~c.ok
            THEN /\ BashReturn(arguments, [validated |-> TRUE, passed |-> TRUE, action |-> action,
                                           checked |-> action.category = "terminal",
                                           admitted |-> FALSE, success |-> FALSE])
                 /\ UNCHANGED ideVars
            ELSE \E g \in {terminal(terminals, active_terminal_index)} :
                 \E r \in {terminal_step(g.terminals[g.index + 1], action)} :
                   /\ Len(r.t) <= MaxCommands
                   /\ terminals' = [g.terminals EXCEPT ![g.index + 1] = r.t]
                   /\ active_terminal_index' = g.index
                   /\ BashReturn(arguments, [validated |-> TRUE, passed |-> TRUE, action |-> action,
                                             checked |-> action.category = "terminal",
                                             admitted |-> TRUE, success |-> ~r.raised])

InitBash == InitEdit

NextBash == \E arguments \in BashInputs : BashExecute(arguments)

SpecBash == InitBash /\ [][NextBash]_vars

\* ------------------------------------------------------------------------
\* apply_edit and the sending of its didChange
\* ------------------------------------------------------------------------
\* apply_edit that undoes the edit when the notification cannot be sent
apply_edit_unsent_rolled_back(ms, act, view, dsk, uri, edits) ==
  LET r == apply_edit(ms, act, view, dsk, uri, edits, FALSE)
      o == IF HasModel(ms, uri) THEN WsFail(ms, act, view, dsk)
           ELSE open_file(ms, act, view, dsk, uri)
  IN  IF ~r.ok THEN r ELSE [o EXCEPT !.ok = FALSE]

\* apply_edit when send_lsp_msg raises for the didChange: the exception leaves
\* apply_edit after text_model.apply_edits, nothing catches it
apply_edit_unsent(ms, act, view, dsk, uri, edits) ==
  LET r == apply_edit(ms, act, view, dsk, uri, edits, FALSE)
      before == IF HasModel(ms, uri) THEN view ELSE open_file(ms, act, view, dsk, uri).lsp
  IN  IF ~r.ok THEN r
      ELSE [r EXCEPT !.ok = FALSE, !.lsp = before,
                     !.msgs = SubSeq(r.msgs, 1, Len(r.msgs) - 1), !.undo = <<>>]

\* apply_edit(uri, edits); sends tells whether the analyzer's pipe takes the didChange
ApplyEditSend(uri, edits, sends) ==
  /\ pc = "live"
  /\ \E r \in {IF sends THEN apply_edit(models, active_models, lsp, disk, uri, edits, FALSE)
               ELSE apply_edit_unsent(models, active_models, lsp, disk, uri, edits)} :
       /\ WithinBounds(r, uri)
       /\ CommitRes("apply_edit", uri, [r EXCEPT !.pre = NoSnap], NoSnap, Len(edits), FALSE,
                    [op |-> "apply_edit",
                     input |-> [uri |-> uri, edits |-> edits, sends |-> sends],
                     out |-> [ok |-> r.ok]])

NotifyBatches == {<<InsertA>>, <<DeleteFirst>>, <<SplitLine>>, <<Reversed>>, <<ZeroBased>>,
                  <<JoinLines, InsertA>>, <<InsertA, JoinLines>>}

InitNotify == InitEdit

NextNotify ==
  \/ \E u \in EditUris : OpenFile(u)
  \/ \E u \in EditUris : CloseFile(u)
  \/ \E u \in EditUris, edits \in NotifyBatches, sends \in BOOLEAN : ApplyEditSend(u, edits, sends)

SpecNotify == InitNotify /\ [][NextNotify]_vars

\* ------------------------------------------------------------------------
\* Reading the answer to a request from the analyzer's output
\* ------------------------------------------------------------------------
MaxStream == 3
MaxRequestId == 2

\* what one readline of the analyzer's output yields: a line without
\* Content-Length, or a header with the frame that follows it; the frame of a
\* server notification has no id
LogLine == [header |-> FALSE, id |-> NoId]
Frame(id) == [header |-> TRUE, id |-> id]
StreamItems == {LogLine} \cup {Frame(id) : id \in 0..MaxRequestId}
Streams == SeqsUpTo(StreamItems, MaxStream)

\* receive_message that takes the first frame it reads
is_response_any_frame(item, expected_id) == item.header

\* receive_message: "Content-Length:" in line_str, and
\* "id" in response_data and response_data["id"] == expected_id
is_response(item, expected_id) == item.header /\ item.id # NoId /\ item.id = expected_id

\* receive_message: the position in the stream of the frame returned; 0 when
\* the stream ends before such a frame was read
RECURSIVE receive_message(_, _, _)
receive_message(stream, expected_id, k) ==
  IF k > Len(stream) THEN 0
  ELSE IF is_response(stream[k], expected_id) THEN k
  ELSE receive_message(stream, expected_id, k + 1)

\* sendRequest: none when the analyzer is unreachable or its output ended
send_request(reachable, stream, message_id) ==
  LET k == IF reachable THEN receive_message(stream, message_id, 1) ELSE 0 IN
  [none |-> k = 0, at |-> k, read |-> IF ~reachable THEN 0 ELSE IF k = 0 THEN Len(stream) ELSE k]

SendRequest ==
  /\ res.op = "input"
  /\ res' = [op |-> "send_request", input |-> res.input,
             out |-> send_request(res.input.reachable, res.input.stream, res.input.message_id)]
  /\ UNCHANGED <<pc, handshake, lsp_msg_id, models, active_models, disk, lsp, sent, last, undo_stack>>
  /\ Others

InitRequest ==
  /\ LiveWorkspace
  /\ res \in {[op |-> "input",
               input |-> [reachable |-> b, stream |-> st, message_id |-> id],
               out |-> <<>>] :
                b \in BOOLEAN, st \in Streams, id \in 1..MaxRequestId}

NextRequest == SendRequest

SpecRequest == InitRequest /\ [][NextRequest]_vars

\* ------------------------------------------------------------------------
\* The life of one workspace: construction, operations, close, operations
\* ------------------------------------------------------------------------
InitSession == Init

NextSession ==
  \/ \E resp \in Responses : Construct(resp)
  \/ \E u \in EditUris : OpenFile(u)
  \/ \E u \in EditUris, edits \in SmallBatches : ApplyEdit(u, edits, FALSE)
  \/ \E u \in CreateUris : CreateFile(u, <<>>, FALSE, FALSE)
  \/ \E u \in EditUris : FindInFile(u)
  \/ \E n \in ToolActionNames, u \in EditUris : ToolRun(n, u)
  \/ Render
  \/ Close

SpecSession == InitSession /\ [][NextSession]_vars

\* ------------------------------------------------------------------------
\* The slice of the buffer that step returns after apply_edit
\* ------------------------------------------------------------------------
MaxDocLines == 9

\* a document of k empty lines
EmptyLines(k) == [i \in 1..(k - 1) |-> NL]
WindowTexts == {EmptyLines(k) : k \in 1..MaxDocLines}
WindowEdits == {Edit(l, 1, l, 1, txt) : l \in 1..MaxDocLines, txt \in {<<"a">>, <<"a", NL>>}}
WindowBatches ==
  {<<e>> : e \in WindowEdits}
  \cup {<<e, f>> : e \in WindowEdits, f \in {Edit(1, 1, 1, 1, <<"a">>), Edit(4, 1, 4, 1, <<"a", NL>>)}}

\* read_file(code_range=merged_ranges[-1]): the lines of t in the last merged range
content_after_edit(ranges, t) ==
  IF ranges = <<>> THEN {}
  ELSE {l \in 1..get_line_count(t) :
          /\ ranges[Len(ranges)].start_position.line <= l
          /\ l <= ranges[Len(ranges)].end_position.line}

\* step with an apply_edit action, as its caller sees it: the Result and the
\* lines of the buffer that it shows
ApplyEditObs ==
  /\ res.op = "input"
  /\ \E r \in {step_apply_edit(models, active_models, lsp, disk,
                               [DictArgs(ToolUri) EXCEPT !.edits = res.input.edits])} :
       CommitRes("step", ToolUri, [r.ws EXCEPT !.ok = r.success], NoSnap,
                 Len(res.input.edits), FALSE,
                 [op |-> "apply_edit_obs", input |-> res.input,
                  out |-> [raised |-> r.raised, success |-> r.success, ranges |-> r.ranges,
                           shown |-> IF r.success
                                     THEN content_after_edit(r.ranges, get_model(r.ws.models, ToolUri).content)
                                     ELSE {}]])

InitWindow ==
  /\ pc = "live"
  /\ handshake = [resp |-> "ok", initialize |-> 1, initialized |-> 1]
  /\ lsp_msg_id = 1
  /\ models = <<>>
  /\ active_models = <<>>
  /\ disk \in {[InitDisk EXCEPT ![ToolUri] = File(t)] : t \in WindowTexts}
  /\ lsp = [u \in URIs |-> NoDoc]
  /\ sent = <<>>
  /\ last = Outcome("construct", None, TRUE)
  /\ ToolInit
  /\ RegIdle
  /\ res \in {[op |-> "input", input |-> [edits |-> b], out |-> <<>>] : b \in WindowBatches}

NextWindow == ApplyEditObs

SpecWindow == InitWindow /\ [][NextWindow]_vars

\* ------------------------------------------------------------------------
\* IDESingleton.__call__, one step per statement, for concurrent callers
\* ------------------------------------------------------------------------
KeyOf(project, style) == <<ClassName, IF style = "keyword" THEN project ELSE "">>

Call(t, project, style) ==
  /\ threads[t].pc = "idle"
  /\ threads[t].calls < MaxCalls
  /\ threads' = [threads EXCEPT ![t] = [@ EXCEPT !.pc = "check", !.project = project, !.style = style,
                                                 !.key = KeyOf(project, style), !.got = NoInstance]]
  /\ UNCHANGED <<instances, lock, built, ide_closed>>

\* if key not in cls._instances
Check(t) ==
  /\ threads[t].pc = "check"
  /\ threads' = [threads EXCEPT ![t].pc = IF instances[threads[t].key] = NoInstance
                                          THEN "acquire" ELSE "return"]
  /\ UNCHANGED <<instances, lock, built, ide_closed>>

\* with cls._lock
Acquire(t) ==
  /\ threads[t].pc = "acquire"
  /\ lock = NoThread
  /\ lock' = t
  /\ threads' = [threads EXCEPT ![t].pc = "recheck"]
  /\ UNCHANGED <<instances, built, ide_closed>>

\* the second test and, when the key is still absent, the construction
Recheck(t) ==
  /\ threads[t].pc = "recheck"
  /\ IF instances[threads[t].key] = NoInstance
     THEN /\ built' = Append(built, threads[t].project)
          /\ instances' = [instances EXCEPT ![threads[t].key] = Len(built) + 1]
     ELSE UNCHANGED <<instances, built>>
  /\ threads' = [threads EXCEPT ![t].pc = "release"]
  /\ UNCHANGED <<lock, ide_closed>>

Release(t) ==
  /\ threads[t].pc = "release"
  /\ lock' = NoThread
  /\ threads' = [threads EXCEPT ![t].pc = "return"]
  /\ UNCHANGED <<instances, built, ide_closed>>

\* return cls._instances[key]
Return(t) ==
  /\ threads[t].pc = "return"
  /\ threads' = [threads EXCEPT ![t] = [@ EXCEPT !.pc = "idle", !.got = instances[threads[t].key],
                                                 !.calls = @ + 1]]
  /\ UNCHANGED <<instances, lock, built, ide_closed>>

\* PythonIDEMCPServer.close by the holder of a returned instance: self.ide.close(),
\* which closes the terminals and the workspace of the shared IDE; the registry
\* keeps its entry
HolderClose(t) ==
  /\ threads[t].pc = "idle"
  /\ threads[t].got # NoInstance
  /\ threads[t].got \notin ide_closed
  /\ ide_closed' = ide_closed \cup {threads[t].got}
  /\ UNCHANGED <<instances, lock, threads, built>>

InitSingleton ==
  /\ WsInit
  /\ ToolInit
  /\ RegIdle

NextSingleton ==
  \/ \E t \in Threads, project \in Projects, style \in Styles :
        Call(t, project, style) /\ UNCHANGED wsVars /\ UNCHANGED toolVars /\ UNCHANGED ideVars
  \/ \E t \in Threads : Check(t) /\ UNCHANGED wsVars /\ UNCHANGED toolVars /\ UNCHANGED ideVars
  \/ \E t \in Threads : Acquire(t) /\ UNCHANGED wsVars /\ UNCHANGED toolVars /\ UNCHANGED ideVars
  \/ \E t \in Threads : Recheck(t) /\ UNCHANGED wsVars /\ UNCHANGED toolVars /\ UNCHANGED ideVars
  \/ \E t \in Threads : Release(t) /\ UNCHANGED wsVars /\ UNCHANGED toolVars /\ UNCHANGED ideVars
  \/ \E t \in Threads : Return(t) /\ UNCHANGED wsVars /\ UNCHANGED toolVars /\ UNCHANGED ideVars
  \/ \E t \in Threads : HolderClose(t) /\ UNCHANGED wsVars /\ UNCHANGED toolVars /\ UNCHANGED ideVars

SpecSingleton == InitSingleton /\ [][NextSingleton]_vars

\* ------------------------------------------------------------------------
\* Properties
\* ------------------------------------------------------------------------
Uris(ms) == {ms[i].uri : i \in 1..Len(ms)}
Sent(method, uri) == \E i \in 1..Len(sent) : sent[i].method = method /\ sent[i].uri = uri
SentNext(method, uri) == \E i \in 1..Len(sent') : sent'[i].method = method /\ sent'[i].uri = uri

\* C1: apply_edit(E, compute_undo_edits = true) followed by apply_edit of the
\* returned undo edits with compute_undo_edits = false is accepted, restores the
\* content the buffer had before E and leaves the version 2 above the one
\* before E.
C1_RoundTrip ==
  (last.op = "apply_edit" /\ last.rt.set) =>
     /\ last.ok
     /\ HasModel(models, last.uri)
     /\ get_model(models, last.uri).content = last.rt.content
     /\ get_model(models, last.uri).version = last.rt.version + 2

C1_Witness ==
  /\ last.op = "apply_edit" /\ last.rt.set /\ last.ok /\ last.n = 2
  /\ \E i \in 1..Len(last.rt.content) : last.rt.content[i] = NL

\* C3: a batch with an invalid edit is rejected as a whole: the models that
\* were open keep content and version, a document the call had to open shows
\* the file's text at version 0, the undo history is untouched and no
\* didChange is sent.
C3_Rejected ==
  /\ ~last'.ok
  /\ \A i \in 1..Len(models) : \E j \in 1..Len(models') : models'[j] = models[i]
  /\ \A j \in 1..Len(models') :
        \/ \E i \in 1..Len(models) : models[i] = models'[j]
        \/ models'[j].content = disk[models'[j].uri].text /\ models'[j].version = 0
  /\ undo_stack' = undo_stack
  /\ disk' = disk
  /\ \A u \in URIs : ~SentNext("textDocument/didChange", u)

C3_AllOrNothing ==
  [][(last'.op = "apply_edit" /\ last'.invalid) => C3_Rejected]_vars

C3_Witness ==
  /\ last.op = "apply_edit" /\ last.invalid /\ ~last.ok /\ last.n = 2
  /\ HasModel(models, last.uri) /\ get_model(models, last.uri).version > 0

\* C4: a document opened by open_file starts at version 0; a successful
\* apply_edit adds exactly 1 to the version of the document it edits, whatever
\* the size of the batch; no other operation changes the version of a document
\* that stays open.
C4_Step ==
  \A j \in 1..Len(models') :
     LET m == models'[j] IN
     IF m.m_id \in ModelIds(models)
     THEN LET old == ModelById(models, m.m_id) IN
          IF last'.op = "apply_edit" /\ last'.ok /\ last'.uri = m.uri
          THEN m.version = old.version + 1
          ELSE m.version = old.version
     ELSE m.version = IF last'.op = "apply_edit" /\ last'.ok THEN 1 ELSE 0

C2_AnalyzerInSync ==
  \A i \in 1..Len(models) :
     /\ lsp[models[i].uri].open
     /\ lsp[models[i].uri].text = models[i].content
     /\ lsp[models[i].uri].version = models[i].version

\* C7: active_models never holds more than max_active_models documents; a
\* document that enters a full active_models evicts its first element (the
\* least recently activated), which is closed with a didClose, and becomes the
\* last element itself.
C7_Cap == Len(active_models) <= max_active_models

C7_Evict ==
  (Len(active_models) = max_active_models /\ last'.ok
     /\ last'.op \in {"open_file", "create_file", "apply_edit"}
     /\ ModelIds(models') \ ModelIds(models) # {})
  => \E id \in ModelIds(models') \ ModelIds(models) :
        /\ active_models' = Append(Tail(active_models), id)
        /\ Head(active_models) \notin ModelIds(models')
        /\ SentNext("textDocument/didClose", ModelById(models, Head(active_models)).uri)

C7_ActiveBound == []C7_Cap /\ [][C7_Evict]_vars

C7_Witness ==
  /\ last.op = "open_file" /\ last.ok /\ last.uri = "d.py"
  /\ Len(active_models) = 3
  /\ [i \in 1..3 |-> ModelById(models, active_models[i]).uri] = <<"b.py", "c.txt", "d.py">>
  /\ ~HasModel(models, "a.py")
  /\ Sent("textDocument/didClose", "a.py")

\* C8: open_file on an open URI, active_model and apply_edit on an open
\* document each move that document to the end of active_models and leave the
\* other elements in their order.
C8_Step ==
  (last'.ok /\ last'.op \in {"open_file", "active_model", "apply_edit"}
     /\ HasModel(models, last'.uri))
  => LET id == get_model(models, last'.uri).m_id IN
     active_models' = Append(Without(active_models, id), id)

C8_Promotes == [][C8_Step]_vars

C5_UndoBound ==
  \A u \in URIs :
     /\ Len(undo_stack[u]) <= UndoMaxLen
     /\ ~journal[u].undone =>
           LET n == Len(journal[u].pushed)
               k == IF n < UndoMaxLen THEN n ELSE UndoMaxLen
           IN  undo_stack[u] = SubSeq(journal[u].pushed, n - k + 1, n)

C5_Witness ==
  /\ journal["a.py"].n = 11 /\ ~journal["a.py"].undone
  /\ Len(undo_stack["a.py"]) = 10
  /\ undo_stack["a.py"][1] = journal["a.py"].pushed[2]

\* C6: undo_edit on a document with a non-empty history succeeds, removes the
\* most recent entry of that document's history and leaves the buffer with the
\* content it had before the most recent tracked edit not yet undone; the
\* history and the buffer of every other document are untouched, and a tracked
\* edit leaves the histories of the other documents untouched.
C6_Step ==
  /\ (last'.op = "undo_edit" /\ undo_stack[last'.uri] # <<>>) =>
        /\ last'.ok /\ ~last'.invalid
        /\ get_model(models', last'.uri).content = journal[last'.uri].trail[Len(journal[last'.uri].trail)]
        /\ undo_stack'[last'.uri] = Front(undo_stack[last'.uri])
        /\ \A v \in URIs \ {last'.uri} :
              HasModel(models, v) => HasModel(models', v) /\ get_model(models', v) = get_model(models, v)
  /\ last'.op \in {"undo_edit", "str_replace", "insert"} =>
        \A v \in URIs \ {last'.uri} : undo_stack'[v] = undo_stack[v]

C6_UndoLifo == [][C6_Step]_vars

C6_Witness ==
  /\ last.op = "undo_edit" /\ last.ok /\ last.uri = "b.py"
  /\ journal["b.py"].n = 3 /\ journal["b.py"].trail = <<>>
  /\ undo_stack["b.py"] = <<>>
  /\ get_model(models, "b.py").content = InitDisk["b.py"].text
  /\ Len(undo_stack["c.txt"]) = 1

\* C9: the callers of PyIDESingleton that name the same project_name receive
\* the same instance, and the IDE of a project is constructed once.
C9_OneInstance ==
  /\ \A i, j \in 1..Len(built) : built[i] = built[j] => i = j
  /\ \A t1, t2 \in Threads :
        (threads[t1].got # NoInstance /\ threads[t2].got # NoInstance
           /\ threads[t1].project = threads[t2].project)
        => threads[t1].got = threads[t2].got

Covers(outer, inner) ==
  /\ PosLeq(outer.start_position, inner.start_position)
  /\ PosLeq(inner.end_position, outer.end_position)

C15_NeverRaises ==
  (res.op = "step" /\ res.input.category = "workspace" /\ res.input.action_name \in HandledNames)
    => ~res.out.raised

\* C16: an action whose name is not a supported workspace action fails as an
\* unsupported action, an action whose category is unknown or is terminal fails
\* as an unsupported category, and neither changes a document, the order of the
\* active documents or the analyzer's documents, nor sends a message
C16_Step ==
  (res'.op = "step" /\ pc = "live") =>
    /\ res'.input.category # "workspace" =>
         /\ res'.out.raised /\ res'.out.msg = "unsupported category"
         /\ models' = models /\ active_models' = active_models /\ lsp' = lsp
         /\ disk' = disk /\ sent' = <<>>
    /\ (res'.input.category = "workspace"
        /\ res'.input.action_name \notin HandledNames \cup OtherCaseNames \cup UnimplementedNames) =>
         /\ res'.out.raised /\ res'.out.msg = "unsupported action"
         /\ models' = models /\ active_models' = active_models /\ lsp' = lsp
         /\ disk' = disk /\ sent' = <<>>

C16_Unsupported == [][C16_Step]_vars

C16_Witness ==
  /\ res.op = "step"
  /\ res.input.action_name = "fly"
  /\ res.out.raised
  /\ Len(models) = 2

\* C17: every Result that step returns has done = true, reward 100 exactly
\* when success is true and reward 0 exactly when success is false
C17_ResultShape ==
  (res.op = "step" /\ ~res.out.raised) =>
    /\ res.out.done
    /\ res.out.reward \in {0, 100}
    /\ res.out.reward = 100 <=> res.out.success
    /\ res.out.reward = 0 <=> ~res.out.success

C17_Witness ==
  /\ res.op = "step"
  /\ res.input.action_name = "create_file"
  /\ ~res.out.raised
  /\ res.out.obs = "exists"
  /\ ~res.out.success

Abs(v) == IF v < 0 THEN 0 - v ELSE v
OffColumn(r) == r.start_position.character \notin {1, -1} \/ r.end_position.character \notin {1, -1}

\* C11: under the restricted policy layer an edit whose start or end character
\* is neither 1 nor -1 is rejected before any range resolution and without
\* touching the buffer, while the same column range is accepted when it is
\* given directly to the workspace's apply_edit
C11_Step ==
  /\ (res'.op = "ApplyEditTool" /\ OffColumn(res'.input.range)) =>
       /\ res'.out.raised /\ res'.out.exc = "IDEExecutionError" /\ res'.out.why = "granularity"
       /\ BufferOf(ToolUri)' = BufferOf(ToolUri)
       /\ get_model(models', ToolUri).version = 0
       /\ disk' = disk
       /\ ~SentNext("textDocument/didChange", ToolUri)
  /\ (res'.op = "apply_edit"
      /\ ValidatesAsEdit([range |-> res'.input.range])
      /\ ValidRange(BufferOf(ToolUri), res'.input.range)) =>
       /\ res'.out.ok
       /\ BufferOf(ToolUri)' =
            apply_edits(BufferOf(ToolUri), <<[range |-> res'.input.range, text |-> res'.input.new_text]>>, FALSE).text

C11_Granularity == [][C11_Step]_vars

C11_Witness ==
  /\ res.op = "ApplyEditTool"
  /\ res.input.range = Rng(Pos(1, 2), Pos(1, 2))
  /\ res.out.raised /\ res.out.why = "granularity"
  /\ ValidRange(BufferOf(ToolUri), res.input.range)

\* C12: on a document of n lines convert_edit_range_to_range resolves a line v
\* with 1 <= |v| <= n to v when v > 0 and to n+v+1 when v < 0, and a character c
\* on a line of length L with 1 <= |c| <= L+1 to c when c > 0 and to L+c+2 when
\* c < 0; every resolved position lies in [1, n] x [1, L+1], and a magnitude
\* beyond these bounds is rejected
C12_Resolve ==
  res.op = "convert" =>
    LET t == BufferOf(ToolUri)
        n == get_line_count(t)
        r == res.input.range
        LineOk(v) == 1 <= Abs(v) /\ Abs(v) <= n
        Line(v) == IF v > 0 THEN v ELSE n + v + 1
        CharOk(c, l) == 1 <= Abs(c) /\ Abs(c) <= get_line_length(t, l) + 1
        Char(c, l) == IF c > 0 THEN c ELSE get_line_length(t, l) + c + 2
        InBounds(p) == /\ 1 <= p.line /\ p.line <= n
                       /\ 1 <= p.character /\ p.character <= get_line_length(t, p.line) + 1
        accepted == /\ LineOk(r.start_position.line) /\ LineOk(r.end_position.line)
                    /\ CharOk(r.start_position.character, Line(r.start_position.line))
                    /\ CharOk(r.end_position.character, Line(r.end_position.line))
    IN  /\ res.out.ok <=> accepted
        /\ res.out.ok =>
             /\ res.out.range.start_position.line = Line(r.start_position.line)
             /\ res.out.range.end_position.line = Line(r.end_position.line)
             /\ res.out.range.start_position.character =
                  Char(r.start_position.character, Line(r.start_position.line))
             /\ res.out.range.end_position.character =
                  Char(r.end_position.character, Line(r.end_position.line))
             /\ InBounds(res.out.range.start_position)
             /\ InBounds(res.out.range.end_position)

C12_Witness ==
  /\ res.op = "convert"
  /\ res.out.ok
  /\ res.input.range = Rng(Pos(1, 1), Pos(-1, -1))
  /\ get_line_count(BufferOf(ToolUri)) = 2
  /\ res.out.range.end_position = Pos(2, 2)

\* C13: a line or character of 0 is rejected with an error by every tool entry
\* point that takes coordinates from the agent (convert_edit_range_to_range,
\* the tuple position of InsertCursorTool, start_line and end_line of
\* SimpleEditTool) and is never mapped to a valid position
C13_ZeroRejected ==
  /\ (res.op = "convert"
      /\ 0 \in {res.input.range.start_position.line, res.input.range.start_position.character,
                res.input.range.end_position.line, res.input.range.end_position.character})
       => ~res.out.ok
  /\ (res.op = "InsertCursorTool"
      /\ 0 \in {res.input.range.start_position.line, res.input.range.start_position.character})
       => res.out.raised
  /\ (res.op = "SimpleEditTool"
      /\ 0 \in {res.input.range.start_position.line, res.input.range.end_position.line})
       => res.out.raised

IsPrefix(p, t) == Len(p) <= Len(t) /\ SubSeq(t, 1, Len(p)) = p
IsSuffix(p, t) == Len(p) <= Len(t) /\ SubSeq(t, Len(t) - Len(p) + 1, Len(t)) = p

\* C18: create_file on a path that already exists returns no document when
\* ignore_if_exists is set, fails with a file-already-exists error when
\* neither flag is set, and replaces the file only when overwrite is set and
\* ignore_if_exists is not; in the first two cases the file, the open
\* documents and the messages to the analyzer are unchanged
C18_Step ==
  (res'.op = "create_file" /\ disk[res'.input.uri].exists) =>
    LET i == res'.input
        o == res'.out
        untouched == /\ disk' = disk /\ models' = models /\ active_models' = active_models
                     /\ lsp' = lsp /\ sent' = <<>>
    IN  /\ i.ignore_if_exists => (~o.raised /\ o.returned = NoModel /\ untouched)
        /\ (~i.ignore_if_exists /\ ~i.overwrite) =>
             (o.raised /\ o.exc = "FileExistsError" /\ o.returned = NoModel /\ untouched)
        /\ (~i.ignore_if_exists /\ i.overwrite) =>
             /\ ~o.raised /\ o.returned # NoModel
             /\ disk'[i.uri] = File(write_header(i.uri).text)
             /\ ModelById(models', o.returned).uri = i.uri
        /\ o.returned # NoModel => (i.overwrite /\ ~i.ignore_if_exists)

C18_Exists == [][C18_Step]_vars

C18_Witness ==
  /\ res.op = "create_file"
  /\ res.input.uri = "a.py" /\ res.input.overwrite /\ ~res.input.ignore_if_exists
  /\ res.out.returned # NoModel
  /\ disk["a.py"] = File(Header)

\* C19: on a successful create_file the header generator of the first matching
\* extension is invoked exactly once, before init_content is appended: the
\* created document starts with the header and ends with init_content; when
\* no generator matches, the content is exactly init_content
C19_Step ==
  (res'.op = "create_file" /\ res'.out.returned # NoModel) =>
    LET i == res'.input
        o == res'.out
        content == ModelById(models', o.returned).content
        matching == {k \in 1..Len(header_generators) : EndsWith(i.uri, header_generators[k].file_type)}
    IN  /\ matching = {} => (o.invoked = <<>> /\ content = i.init_content)
        /\ matching # {} =>
             \E k \in matching :
               /\ \A j \in matching : k <= j
               /\ o.invoked = <<header_generators[k].file_type>>
               /\ IsPrefix(header_generators[k].header, content)
               /\ IsSuffix(i.init_content, content)
               /\ Len(content) >= Len(header_generators[k].header) + Len(i.init_content)
               /\ disk'[i.uri] = File(header_generators[k].header)

C19_HeaderOnce == [][C19_Step]_vars

C19_Witness ==
  /\ res.op = "create_file"
  /\ res.input.uri = "d.py" /\ res.input.init_content = <<"a">>
  /\ res.out.invoked = <<".py">>
  /\ ModelById(models, res.out.returned).content = Header \o <<NL, "a">>

\* C20: render shows in full exactly one document, the most recently activated
\* one, and for each other active document an outline section obtained by
\* exactly one documentSymbol request; with no active document it shows
\* neither a full view nor an outline
C20_Step ==
  res'.op = "render" =>
    LET v == res'.out
        n == Len(active_models)
    IN  /\ n = 0 => (v.full = NoModel /\ v.outlines = <<>> /\ sent' = <<>>)
        /\ n > 0 =>
             /\ v.full = active_models[n]
             /\ Len(v.outlines) = n - 1
             /\ Len(sent') = n - 1
             /\ \A k \in 1..(n - 1) :
                  /\ v.outlines[k].mid = active_models[k]
                  /\ v.outlines[k].mid # v.full
                  /\ Cardinality({m \in 1..Len(sent') :
                                    /\ sent'[m].method = "textDocument/documentSymbol"
                                    /\ sent'[m].id = v.outlines[k].id
                                    /\ sent'[m].uri = ModelById(models, v.outlines[k].mid).uri}) = 1
             /\ \A k, m \in 1..(n - 1) : v.outlines[k].id = v.outlines[m].id => k = m
        /\ (last.op = "open_file" /\ last.ok) => ModelById(models, v.full).uri = last.uri
        /\ (res.op = "create_file" /\ res.out.returned # NoModel) => v.full = res.out.returned

C20_Render == [][C20_Step]_vars

C20_Witness ==
  /\ res.op = "render"
  /\ Len(active_models) = 3
  /\ Len(res.out.outlines) = 2
  /\ res.out.full = active_models[3]
  /\ res.input = <<"symbols", "error">>

\* C21: a terminal action whose command name is not in the allow-list is
\* rejected with an error before the terminal is reached: terminal.step is not
\* invoked for it and the rejected call creates no terminal
C21_Step ==
  (res'.op = "ide_step" /\ res'.input.category = "terminal"
   /\ res'.input.action_name \notin cmd_white_list) =>
    /\ res'.out.raised /\ res'.out.exc = "IDEExecutionError"
    /\ res'.out.route = "rejected"
    /\ terminals' = terminals
    /\ active_terminal_index' = active_terminal_index

C21_AllowList == [][C21_Step]_vars

C21_Witness ==
  /\ res.op = "ide_step"
  /\ res.input.action_name = "rm"
  /\ res.out.raised
  /\ terminals = <<<<"echo">>>>

\* the text of t with its lines s..e replaced by txt
ReplaceLines(t, s, e, txt) ==
  SubSeq(t, 1, LineStart(t, s)) \o txt
    \o SubSeq(t, LineStart(t, e) + get_line_length(t, e) + 1, Len(t))

\* C22: SimpleEditTool turns any start_line/end_line pair into a whole-line
\* range inside the document: negative lines count from the end, the start is
\* clamped to [1, lineCount] and the end to [start, lineCount]; with
\* start_line > lineCount the new text is appended after the last line with a
\* newline prepended and nothing is replaced
C22_Step ==
  res'.op = "SimpleEditTool" =>
    LET t == BufferOf(ToolUri)
        n == get_line_count(t)
        sl == res'.input.range.start_position.line
        el == res'.input.range.end_position.line
        txt == res'.input.new_text
    IN  /\ ~res'.out.raised /\ res'.out.success
        /\ sl > n => BufferOf(ToolUri)' = t \o <<NL>> \o txt
        /\ sl <= n =>
             \E s \in 1..n : \E e \in s..n :
               /\ sl > 0 => s = sl
               /\ sl < 0 => s = Clamp(n + sl + 1, 1, n)
               /\ el > 0 => e = Clamp(el, s, n)
               /\ el < 0 => e = Clamp(n + el + 1, s, n)
               /\ BufferOf(ToolUri)' = ReplaceLines(t, s, e, txt)

C22_WholeLines == [][C22_Step]_vars

C22_Witness ==
  /\ res.op = "SimpleEditTool"
  /\ res.input.range.start_position.line = 3
  /\ res.out.success
  /\ BufferOf(ToolUri) = <<"a", NL, "b">>

SyncMethods == {"textDocument/didOpen", "textDocument/didChange",
                "workspace/didCreateFiles", "textDocument/didClose"}

\* C23: no document-sync notification (didOpen, didChange, didCreateFiles,
\* didClose) is sent before the initialize/initialized exchange has completed,
\* that is before initialize was answered successfully and initialized was sent
C23_HandshakeFirst ==
  \A i \in 1..Len(sent) :
     sent[i].method \in SyncMethods =>
        /\ handshake.resp = "ok"
        /\ handshake.initialize = 1
        /\ handshake.initialized = 1

Requests == {"initialize", "textDocument/documentSymbol"}
Notifications == {"initialized", "textDocument/didOpen", "textDocument/didChange",
                  "workspace/didCreateFiles"}

\* C24: every request sent to the analyzer (initialize,
\* textDocument/documentSymbol) carries a message id, and every notification
\* (initialized, didOpen, didChange, didCreateFiles) is sent without one
C24_Ids ==
  \A i \in 1..Len(sent) :
     /\ sent[i].method \in Requests => sent[i].id # NoId /\ sent[i].id \in 1..lsp_msg_id
     /\ sent[i].method \in Notifications => sent[i].id = NoId

C24_Witness ==
  /\ last.op = "render"
  /\ Len(sent) = 2
  /\ sent[1].method = "textDocument/documentSymbol"
  /\ sent[1].id = 2 /\ sent[2].id = 3

\* C25: a request returns only a response frame whose id is the request's id;
\* the non-header lines, server notifications and frames with another id read
\* before it are skipped and never returned; when the analyzer is unreachable
\* the request returns none
C25_Correlated ==
  res.op = "send_request" =>
    LET in == res.input
        out == res.out
    IN  /\ ~in.reachable => out.none
        /\ ~out.none =>
             /\ out.at \in 1..Len(in.stream)
             /\ in.stream[out.at] = Frame(in.message_id)
             /\ \A j \in 1..(out.at - 1) : in.stream[j] # Frame(in.message_id)
        /\ (in.reachable /\ \E j \in 1..Len(in.stream) : in.stream[j] = Frame(in.message_id))
             => ~out.none

C25_Witness ==
  /\ res.op = "send_request"
  /\ res.input.stream = <<LogLine, Frame(NoId), Frame(1)>>
  /\ res.input.message_id = 1
  /\ res.out.at = 3

\* the didChange notifications among the messages ms
DidChanges(ms) == {i \in 1..Len(ms) : ms[i].method = "textDocument/didChange"}

\* the version of the open document uri, 0 when it is not open
VersionOf(ms, uri) == IF HasModel(ms, uri) THEN get_model(ms, uri).version ELSE 0

\* C26: each successful apply_edit sends exactly one didChange for the
\* document, after the buffer was modified, with the document's new version and
\* one content change per edit in the caller's order; a failing apply_edit
\* sends none; the versions of the successive didChange notifications of a
\* document are strictly increasing
C26_Step ==
  (res'.op = "apply_edit" /\ res'.input.sends) =>
    LET uri == res'.input.uri
        edits == res'.input.edits
    IN  IF res'.out.ok
        THEN /\ Cardinality(DidChanges(sent')) = 1
             /\ LET d == sent'[Len(sent')] IN
                /\ d.method = "textDocument/didChange"
                /\ d.uri = uri
                /\ d.id = NoId
                /\ d.version = get_model(models', uri).version
                /\ d.version = VersionOf(models, uri) + 1
                /\ lsp[uri].open => d.version > lsp[uri].version
                /\ Len(d.changes) = Len(edits)
                /\ \A i \in 1..Len(edits) :
                      /\ d.changes[i].text = edits[i].text
                      /\ d.changes[i].range = to_lsp_range(edits[i].range)
        ELSE /\ DidChanges(sent') = {}
             /\ VersionOf(models', uri) = VersionOf(models, uri)

C26_DidChange == [][C26_Step]_vars

C26_Witness ==
  /\ res.op = "apply_edit" /\ res.out.ok /\ res.input.sends
  /\ res.input.edits = <<JoinLines, InsertA>>
  /\ Len(sent) = 1
  /\ sent[1].version = 2
  /\ sent[1].changes[2].text = <<"a">>

\* C28: when the sending of the didChange fails after the edit was applied,
\* the edit is not rolled back: the buffer's content and version keep their
\* post-edit values
C28_Step ==
  (res'.op = "apply_edit" /\ ~res'.input.sends) =>
    LET uri == res'.input.uri
        edits == res'.input.edits
        a == apply_edits(BufferOf(uri), edits, FALSE)
    IN  ((\A i \in 1..Len(edits) : ValidatesAsEdit(edits[i])) /\ a.ok) =>
          /\ ~res'.out.ok
          /\ DidChanges(sent') = {}
          /\ HasModel(models', uri)
          /\ get_model(models', uri).content = a.text
          /\ get_model(models', uri).version = VersionOf(models, uri) + 1
          /\ disk' = disk

C28_NoRollback == [][C28_Step]_vars

C28_Witness ==
  /\ res.op = "apply_edit" /\ ~res.input.sends /\ ~res.out.ok
  /\ res.input.edits = <<InsertA>>
  /\ sent = <<>>
  /\ HasModel(models, "a.py")
  /\ get_model(models, "a.py").content = <<"a", "a">>
  /\ get_model(models, "a.py").version = 1
  /\ lsp["a.py"].version = 0

\* the didOpen notifications among the messages ms
DidOpens(ms) == {i \in 1..Len(ms) : ms[i].method = "textDocument/didOpen"}

\* C27: opening a document that is not open sends exactly one didOpen with
\* the full text of the buffer and version 0, and adds the document to the
\* workspace as the most recently activated one
C27_Step ==
  (last'.op = "open_file" /\ last'.ok /\ ~HasModel(models, last'.uri)) =>
    LET uri == last'.uri IN
    /\ HasModel(models', uri)
    /\ Len(active_models') > 0
    /\ active_models'[Len(active_models')] = get_model(models', uri).m_id
    /\ Cardinality({i \in 1..Len(active_models') :
                      active_models'[i] = get_model(models', uri).m_id}) = 1
    /\ Cardinality(DidOpens(sent')) = 1
    /\ \A i \in DidOpens(sent') :
          /\ sent'[i].uri = uri
          /\ sent'[i].id = NoId
          /\ sent'[i].version = 0
          /\ sent'[i].text = get_model(models', uri).content
          /\ sent'[i].text = disk[uri].text

C27_DidOpen == [][C27_Step]_vars

C27_Witness ==
  /\ last.op = "open_file" /\ last.ok /\ last.uri = "c.txt"
  /\ Len(active_models) = 2
  /\ ModelById(models, active_models[1]).uri = "a.py"
  /\ sent = <<DidOpen("c.txt", 0, <<>>)>>

\* C29: undo_edit on a document whose undo history is empty fails with the
\* error of an empty stack, changes neither the buffer's content, its version
\* nor the file, and sends nothing to the analyzer
C29_Step ==
  (last'.op = "undo_edit" /\ undo_stack[last'.uri] = <<>>) =>
    /\ ~last'.ok
    /\ res'.op = "undo_edit" /\ res'.out.raised /\ res'.out.exc = "IndexError"
    /\ models' = models
    /\ active_models' = active_models
    /\ disk' = disk
    /\ lsp' = lsp
    /\ sent' = <<>>
    /\ undo_stack' = undo_stack

C29_EmptyUndo == [][C29_Step]_vars

C29_Witness ==
  /\ res.op = "undo_edit" /\ res.out.raised
  /\ undo_stack["a.py"] = <<>>
  /\ HasModel(models, "a.py")
  /\ get_model(models, "a.py").version = 2
  /\ journal["a.py"].undone

\* what the text returned by render is made of: the view of the document shown
\* in full, and for every other active document its URI and its outline or
\* failure notice
RenderText(out, ms) ==
  [full |-> IF out.full = NoModel THEN <<>>
            ELSE <<ModelById(ms, out.full).uri, ModelById(ms, out.full).content>>,
   sections |-> [i \in 1..Len(out.outlines) |->
                   <<ModelById(ms, out.outlines[i].mid).uri, out.outlines[i].shown>>]]

\* C30: render changes no document's content, version or cursors and neither
\* the set nor the order of the active documents, and two successive renders
\* with no operation in between return the same text
C30_Step ==
  res'.op = "render" =>
    /\ models' = models
    /\ active_models' = active_models
    /\ disk' = disk
    /\ lsp' = lsp
    /\ (res.op = "render" /\ res'.input = res.input) =>
          RenderText(res'.out, models') = RenderText(res.out, models)

C30_RenderFrame == [][C30_Step]_vars

C30_Witness ==
  /\ res.op = "render"
  /\ lsp_msg_id = 3
  /\ Len(active_models) = 2
  /\ active_models[1] = <<"a.py", 1>>
  /\ ModelById(models, active_models[1]).cursors # {}
  /\ res.input = <<"symbols">>

SessionMoves == {<<"new", "live">>, <<"new", "failed">>, <<"live", "closed">>}
ClosedOps == {"step", "render", "open_file", "apply_edit", "create_file", "find_in_file"}

\* C31: the session only moves forward (constructed, ready, closed), and once
\* the workspace is closed every operation (step, render, open_file,
\* apply_edit, create_file, find_in_file) is rejected with an error and sends
\* nothing to the analyzer
C31_Step ==
  /\ pc' # pc => <<pc, pc'>> \in SessionMoves
  /\ (pc = "closed" /\ last'.op \in ClosedOps) =>
        /\ ~last'.ok
        /\ sent' = <<>>
        /\ models' = models /\ disk' = disk /\ lsp' = lsp

C31_Closed == [][C31_Step]_vars

\* the lines an edit adds or removes: line breaks written minus line breaks replaced
LineDelta(e) == NLBefore(e.text, Len(e.text)) - (e.range.end_position.line - e.range.start_position.line)

\* the sum of LineDelta over the edits of the batch, other than i, that lie before edit i
RECURSIVE ShiftBefore(_, _, _)
ShiftBefore(edits, i, j) ==
  IF j > Len(edits) THEN 0
  ELSE (IF j # i /\ PosLeq(edits[j].range.end_position, edits[i].range.start_position)
           /\ (edits[j].range # edits[i].range \/ j < i)
        THEN LineDelta(edits[j]) ELSE 0)
       + ShiftBefore(edits, i, j + 1)

\* the lines of the post-edit buffer that hold the text written by edit i
WrittenLines(edits, i) ==
  LET first == edits[i].range.start_position.line + ShiftBefore(edits, i, 1)
  IN  first..(first + SplitLinesCount(edits[i].text) - 1)

\* C32: after a successful apply_edit action the slice of the post-edit buffer
\* that is returned contains, for every edit of the batch, the lines written
\* by that edit with 3 lines of context before and after, clipped to the buffer
C32_Slice ==
  (res.op = "apply_edit_obs" /\ res.out.success) =>
    LET edits == res.input.edits
        n == get_line_count(BufferOf(ToolUri))
    IN  \A i \in 1..Len(edits) :
          \A l \in WrittenLines(edits, i) :
            \A c \in (l - 3)..(l + 3) :
              (1 <= c /\ c <= n) => c \in res.out.shown

\* C33: once the first access to IDE.terminal has created a terminal, every
\* later access returns that terminal and creates no new one: the terminals
\* list keeps exactly one element
C33_OneTerminal ==
  /\ Len(terminals) <= 1
  /\ Len(terminals) = 1 => active_terminal_index = 0

\* C34: after any sequence of open_file, create_file (with or without
\* overwrite), apply_edit and close_file the workspace never holds two
\* documents with the same URI
C34_UniqueUri ==
  \A i, j \in 1..Len(models) : models[i].uri = models[j].uri => i = j

\* C35: every IDE returned by a PyIDESingleton lookup is usable: the instance a
\* lookup returns is never one on which close has run, also after a holder of
\* the shared instance has closed it.
C35_Usable ==
  [][\A t \in Threads :
       (threads[t].pc = "return" /\ threads'[t].pc = "idle") =>
          threads'[t].got \notin ide_closed']_vars

\* C36: two lookups that name different projects never receive the same
\* instance, whether the project is passed as a keyword or positionally.
C36_Distinct ==
  \A t1, t2 \in Threads :
     (/\ threads[t1].got # NoInstance
      /\ threads[t2].got # NoInstance
      /\ threads[t1].project # threads[t2].project) =>
        threads[t1].got # threads[t2].got

\* C37: every action name that a tool wrapper sends to step with category
\* workspace has a case of its own in step: no tool's action is rejected as
\* unsupported or reaches the branch of the unimplemented names.
C37_ToolNames ==
  (/\ res.op = "step"
   /\ res.input.category = "workspace"
   /\ res.input.action_name \in ToolActionNames) =>
     ~(res.out.raised /\ res.out.msg \in {"unsupported action", "unimplemented"})

\* C38: the success flag that ApplyEditTool and SimpleEditTool report is true
\* only if the apply_edit step succeeded and, when the tool saves, the
\* save_file step succeeded.
C38_Success ==
  (res.op \in {"ApplyEditTool", "SimpleEditTool"} /\ ~res.out.raised /\ res.out.success) =>
     /\ res.out.applied
     /\ res.op = "SimpleEditTool" => res.out.saved

C40_View ==
  LET s == res.input.range.start_position.line
      e == res.input.range.end_position.line
      t == BufferOf(ToolUri)
  IN  (res.op = "ViewTool" /\ 1 <= s /\ s <= e /\ e <= get_line_count(t)) =>
         /\ ~res.out.raised
         /\ res.out.success
         /\ res.out.text = SubSeq(t, LineStart(t, s) + 1, LineStart(t, e) + get_line_length(t, e))

====
